---- MODULE Spec2Model ----
(***************************************************************************)
(* Kernel thread lifecycle and scheduling core (core/hle/kernel/thread.cpp) *)
(* as a state machine.  Every kernel operation runs under the global HLE    *)
(* lock, so each operation is one atomic action.  The per-core Scheduler,   *)
(* the timed-event queue, the callback handle table and the wait objects    *)
(* are collaborators of thread.cpp; their operations are modelled from the  *)
(* interface the specification documents.                                   *)
(***************************************************************************)
EXTENDS Integers, Sequences, FiniteSets, TLC

\* ------------------------------------------------------------------ bounds
\* Number of thread objects the model can create.
MaxThreads == 4
\* Threads created in the mutex scenario (SpecMutex).
MaxMutexThreads == 3
\* Threads created in the wakeup scenario (SpecWake).
MaxWakeThreads == 2
\* Threads created in the boost scenario (SpecBoost).
MaxBoostThreads == 2
\* Threads created in the placement scenario (SpecPlace).
MaxPlaceThreads == 4
\* Threads created in the termination scenario (SpecStop).
MaxStopThreads == 3
\* Threads created in the timer scenario (SpecTimer).
MaxTimerThreads == 2
\* Virtual time the timer scenario advances to.
MaxTicks == 3
\* Threads created in the creation scenario (SpecCreate).
MaxCreateThreads == 3
\* Threads created in the synchronization wait scenario (SpecSynch).
MaxSynchThreads == 3
\* Threads created in the priority inheritance scenario (SpecInherit).
MaxInheritThreads == 3
\* Threads created in the kernel lock scenario (SpecLock).
MaxLockThreads == 2
\* Threads created in the wait timeout scenario (SpecTimeout).
MaxTimeoutThreads == 3
\* Threads created in the thread start scenario (SpecStart).
MaxStartThreads == 2
\* Threads created in the wakeup delay scenario (SpecDelay).
MaxDelayThreads == 1
\* Timer events that can be pending in the wakeup delay scenario.
MaxDelayEvents == 2

\* ------------------------------------------------------- program constants
NUM_CPU_CORES == 4
THREADPRIO_HIGHEST == 0
THREADPRIO_DEFAULT == 44
THREADPRIO_LOWEST == 63
THREADPROCESSORID_MAX == NUM_CPU_CORES - 1
\* std::bitset<8>: TLS entries per page
TLS_SLOTS_PER_PAGE == 8
TLS_ENTRY_SIZE == 512
PAGE_SIZE == TLS_SLOTS_PER_PAGE * TLS_ENTRY_SIZE
\* A handle is generation | (slot << 15).
HANDLE_SLOT_SHIFT == 32768

ThreadIds == 1..MaxThreads
Cores == 0..(NUM_CPU_CORES - 1)
\* The priorities the model's callers pass and its ready queues are indexed by:
\* the most urgent, the default and the least urgent one.
Priorities == {THREADPRIO_HIGHEST, THREADPRIO_DEFAULT, THREADPRIO_LOWEST}
NoThread == 0
\* Every thread is a wait object (a joiner waits for it to exit).
Objects == ThreadIds
HandleSlots == 0..(MaxThreads - 1)

WaitStatuses == {"WaitSynchAll", "WaitSynchAny", "WaitHLEEvent", "WaitSleep", "WaitIPC",
                 "WaitMutex", "WaitArb"}
SynchStatuses == {"WaitSynchAll", "WaitSynchAny", "WaitHLEEvent"}

VARIABLES
    status,              \* thread -> ThreadStatus, "None" before Thread::Create
    nominal_priority,    \* thread -> requested priority
    current_priority,    \* thread -> effective priority
    lock_owner,          \* thread -> thread holding the mutex it waits for, or NoThread
    wait_mutex_threads,  \* thread -> sequence of threads waiting for a mutex it holds
    processor_id,        \* thread -> core the thread is assigned to
    ideal_core,          \* thread -> placement hint, -1 = none
    affinity_mask,       \* thread -> bitmask of eligible cores
    scheduler,           \* thread -> core whose Scheduler the thread references
    wait_objects,        \* thread -> sequence of objects it is blocked on
    wakeup_callback,     \* thread -> "null", or what the callback returns: "resume", "veto"
    mutex_wait_address,  \* thread -> address of the mutex it waits for, 0 = none
    condvar_wait_address,\* thread -> address of the condition variable, 0 = none
    wait_handle,         \* thread -> handle given with the mutex wait, 0 = none
    arb_wait_address,    \* thread -> address of the arbitration wait, 0 = none
    callback_handle,     \* thread -> its handle in wakeup_callback_handle_table
    tls_address,         \* thread -> offset of its TLS entry from TLS_AREA_VADDR
    waiting_threads,     \* object -> WaitObject::waiting_threads
    thread_list,         \* core -> Scheduler::thread_list (tracking set)
    ready_queue,         \* core -> priority -> queue of ready threads
    current_thread,      \* core -> Scheduler::current_thread, or NoThread
    reschedule_pending,  \* core -> PrepareReschedule() was requested
    handle_objects,      \* slot -> thread of the callback handle table, or NoThread
    handle_generations,  \* slot -> generation of the handle in the slot
    next_generation,     \* generation of the next handle
    events,              \* pending ThreadWakeup events: [time, handle]
    in_flight,           \* events taken off the queue whose callback has not run yet
    invocations,         \* thread -> the calls of its wakeup_callback since its wait began
    hle_lock,            \* holder of HLE::g_hle_lock: "free", "timer" or a core
    callback_pc,         \* where the timer's host thread is in ThreadWakeupCallback, and
                         \* its local `thread`: [at, thread]
    resume,              \* the local `resume` of the ThreadWakeupCallback in progress
    ticks,               \* CoreTiming::GetTicks()
    tls_slots,           \* Process::tls_slots: sequence of pages, each the set of used slots
    next_thread_id,      \* next_thread_id of NewThreadId
    crashed,             \* a fatal ASSERT has ended the emulation session
    debug_build,         \* the build defines _DEBUG, so DEBUG_ASSERT is ASSERT
    last                 \* the kernel call made by the last step

vars == <<status, nominal_priority, current_priority, lock_owner, wait_mutex_threads,
          processor_id, ideal_core, affinity_mask, scheduler, wait_objects,
          wakeup_callback, mutex_wait_address, condvar_wait_address, wait_handle,
          arb_wait_address, callback_handle, tls_address, waiting_threads, thread_list,
          ready_queue, current_thread, reschedule_pending, handle_objects,
          handle_generations, next_generation, events, in_flight, invocations, hle_lock,
          callback_pc, resume, ticks, tls_slots, next_thread_id, crashed, debug_build,
          last>>

\* --------------------------------------------------------------- helpers
\* boost::remove_erase / std::remove: every occurrence of x leaves the sequence.
RemoveErase(s, x) == SelectSeq(s, LAMBDA y : y # x)

Contains(s, x) == \E i \in 1..Len(s) : s[i] = x

Count(s, x) == Cardinality({i \in 1..Len(s) : s[i] = x})

\* mask & (1ULL << index)
BitSet(mask, index) == (mask \div (2 ^ index)) % 2 = 1

\* 1ULL << index
Bit(index) == 2 ^ index

\* The kernel state as one value, so that nested calls compose as in the code.
K == [status |-> status, nominal_priority |-> nominal_priority,
      current_priority |-> current_priority, lock_owner |-> lock_owner,
      wait_mutex_threads |-> wait_mutex_threads, processor_id |-> processor_id,
      ideal_core |-> ideal_core, affinity_mask |-> affinity_mask,
      scheduler |-> scheduler, wait_objects |-> wait_objects,
      wakeup_callback |-> wakeup_callback, mutex_wait_address |-> mutex_wait_address,
      condvar_wait_address |-> condvar_wait_address, wait_handle |-> wait_handle,
      arb_wait_address |-> arb_wait_address, callback_handle |-> callback_handle,
      tls_address |-> tls_address, waiting_threads |-> waiting_threads,
      thread_list |-> thread_list, ready_queue |-> ready_queue,
      current_thread |-> current_thread, reschedule_pending |-> reschedule_pending,
      handle_objects |-> handle_objects, handle_generations |-> handle_generations,
      next_generation |-> next_generation, events |-> events, in_flight |-> in_flight,
      invocations |-> invocations, hle_lock |-> hle_lock, callback_pc |-> callback_pc,
      resume |-> resume,
      ticks |-> ticks, tls_slots |-> tls_slots, next_thread_id |-> next_thread_id,
      crashed |-> crashed, debug_build |-> debug_build]

Commit(k) ==
    /\ status' = k.status
    /\ nominal_priority' = k.nominal_priority
    /\ current_priority' = k.current_priority
    /\ lock_owner' = k.lock_owner
    /\ wait_mutex_threads' = k.wait_mutex_threads
    /\ processor_id' = k.processor_id
    /\ ideal_core' = k.ideal_core
    /\ affinity_mask' = k.affinity_mask
    /\ scheduler' = k.scheduler
    /\ wait_objects' = k.wait_objects
    /\ wakeup_callback' = k.wakeup_callback
    /\ mutex_wait_address' = k.mutex_wait_address
    /\ condvar_wait_address' = k.condvar_wait_address
    /\ wait_handle' = k.wait_handle
    /\ arb_wait_address' = k.arb_wait_address
    /\ callback_handle' = k.callback_handle
    /\ tls_address' = k.tls_address
    /\ waiting_threads' = k.waiting_threads
    /\ thread_list' = k.thread_list
    /\ ready_queue' = k.ready_queue
    /\ current_thread' = k.current_thread
    /\ reschedule_pending' = k.reschedule_pending
    /\ handle_objects' = k.handle_objects
    /\ handle_generations' = k.handle_generations
    /\ next_generation' = k.next_generation
    /\ events' = k.events
    /\ in_flight' = k.in_flight
    /\ invocations' = k.invocations
    /\ hle_lock' = k.hle_lock
    /\ callback_pc' = k.callback_pc
    /\ resume' = k.resume
    /\ ticks' = k.ticks
    /\ tls_slots' = k.tls_slots
    /\ next_thread_id' = k.next_thread_id
    /\ crashed' = k.crashed
    /\ debug_build' = k.debug_build

\* ASSERT(cond): a failed assertion logs and crashes the process; nothing after it runs.
Fatal(k) == [k EXCEPT !.crashed = TRUE]

\* DEBUG_ASSERT(false): ASSERT in a build with _DEBUG, nothing in any other build.
DebugFatal(k) == IF k.debug_build THEN Fatal(k) ELSE k

\* How a call ended: "assert" when a fatal assertion stopped it.
Outcome(k) == IF k.crashed THEN "assert" ELSE "ok"

Call(op, res) == [op |-> op, res |-> res]

\* ------------------------------------------------------------ CoreTiming
BASE_CLOCK_RATE == 1019215872

\* CoreTiming::nsToCycles; the integer division of the code rounds toward zero.
nsToCycles(ns) ==
    IF ns < 0 THEN 0 - ((0 - ns) * BASE_CLOCK_RATE) \div 1000000000
    ELSE (ns * BASE_CLOCK_RATE) \div 1000000000

\* CoreTiming::ScheduleEventThreadsafe for the ThreadWakeup event type
ScheduleEventThreadsafe(k, cycles, handle) ==
    [k EXCEPT !.events = Append(@, [time |-> k.ticks + cycles, handle |-> handle])]

\* CoreTiming::UnscheduleEvent: every event of the handle leaves the queue.
UnscheduleEvent(k, handle) ==
    [k EXCEPT !.events = SelectSeq(@, LAMBDA e : e.handle # handle)]

\* CoreTiming::AddTicks: virtual time passes.
AddTicks(k, cycles) == [k EXCEPT !.ticks = @ + cycles]

\* CoreTiming::Advance takes the i-th event off the queue and calls its callback, which
\* then waits for the kernel lock.
TakeEvent(k, i) ==
    [k EXCEPT !.events = SubSeq(@, 1, i - 1) \o SubSeq(@, i + 1, Len(@)),
              !.in_flight = Append(@, k.events[i])]

\* ------------------------------------------------------------- Scheduler
\* Scheduler::AddThread: the thread joins the core's tracking set.
AddThread(k, c, t, priority) ==
    [k EXCEPT !.thread_list[c] = Append(@, t)]

\* Scheduler::RemoveThread: the thread leaves the core's tracking set.
RemoveThread(k, c, t) ==
    [k EXCEPT !.thread_list[c] = RemoveErase(@, t)]

\* Scheduler::ScheduleThread: push_back on the ready queue of that priority.
ScheduleThread(k, c, t, priority) ==
    [k EXCEPT !.ready_queue[c][priority] = Append(@, t)]

\* Scheduler::UnscheduleThread: remove from the ready queue of that priority.
UnscheduleThread(k, c, t, priority) ==
    [k EXCEPT !.ready_queue[c][priority] = RemoveErase(@, t)]

\* Scheduler::SetThreadPriority: a Ready thread moves between the priority queues.
SetThreadPriority(k, c, t, priority) ==
    IF k.status[t] = "Ready"
    THEN ScheduleThread(UnscheduleThread(k, c, t, k.current_priority[t]), c, t, priority)
    ELSE k

\* Scheduler::GetCurrentThread
GetCurrentThread(k, c) == k.current_thread[c]

\* Scheduler::PopNextReadyThread's pop_first: the first thread of the most urgent
\* non-empty priority queue, or NoThread.
FirstReady(k, c, below) ==
    LET ps == {p \in Priorities : p < below /\ Len(k.ready_queue[c][p]) > 0}
    IN IF ps = {} THEN NoThread
       ELSE Head(k.ready_queue[c][CHOOSE p \in ps : \A q \in ps : p <= q])

\* Scheduler::Reschedule: PopNextReadyThread then SwitchContext.  A current thread
\* that is still Running is kept unless a strictly more urgent thread is ready.
Reschedule(k, c) ==
    LET cur == k.current_thread[c]
        running == cur # NoThread /\ k.status[cur] = "Running"
        better == IF running
                  THEN FirstReady(k, c, k.current_priority[cur])
                  ELSE FirstReady(k, c, THREADPRIO_LOWEST + 1)
        next == IF running /\ better = NoThread THEN cur ELSE better
        \* SwitchContext: a previous thread that is still Running goes back to Ready
        k1 == IF running
              THEN [k EXCEPT !.status[cur] = "Ready",
                             !.ready_queue[c][k.current_priority[cur]] = <<cur>> \o @]
              ELSE k
        \* the new thread's pending wakeup is cancelled and it leaves the ready queue
        k2 == IF next # NoThread
              THEN [UnscheduleThread(UnscheduleEvent(k1, k1.callback_handle[next]),
                                     c, next, k1.current_priority[next])
                       EXCEPT !.status[next] = "Running"]
              ELSE k1
    IN [k2 EXCEPT !.current_thread[c] = next, !.reschedule_pending[c] = FALSE]

\* Cpu::PrepareReschedule
PrepareReschedule(k, c) == [k EXCEPT !.reschedule_pending[c] = TRUE]

\* ----------------------------------------------------------- HandleTable
HandleSlot(handle) == handle \div HANDLE_SLOT_SHIFT

HandleGeneration(handle) == handle % HANDLE_SLOT_SHIFT

\* HandleTable::IsValid
HandleIsValid(k, handle) ==
    /\ HandleSlot(handle) \in HandleSlots
    /\ k.handle_objects[HandleSlot(handle)] # NoThread
    /\ k.handle_generations[HandleSlot(handle)] = HandleGeneration(handle)

\* HandleTable::Get: the thread of a valid handle, NoThread (nullptr) otherwise.
HandleGet(k, handle) ==
    IF HandleIsValid(k, handle) THEN k.handle_objects[HandleSlot(handle)] ELSE NoThread

\* HandleTable::Create: the new handle is in NewHandle(k).
NewHandleSlot(k) ==
    CHOOSE slot \in HandleSlots :
        /\ k.handle_objects[slot] = NoThread
        /\ \A other \in HandleSlots : k.handle_objects[other] = NoThread => slot <= other

NewHandle(k) == k.next_generation + NewHandleSlot(k) * HANDLE_SLOT_SHIFT

HandleCreate(k, t) ==
    [k EXCEPT !.handle_objects[NewHandleSlot(k)] = t,
              !.handle_generations[NewHandleSlot(k)] = k.next_generation,
              !.next_generation = @ + 1]

\* HandleTable::Close: an invalid handle is an error result, which Stop ignores.
HandleClose(k, handle) ==
    IF HandleIsValid(k, handle)
    THEN [k EXCEPT !.handle_objects[HandleSlot(handle)] = NoThread]
    ELSE k

\* ---------------------------------------------------------------- Thread
\* The loop of Thread::UpdatePriority: the most urgent priority among the thread's
\* nominal priority and the nominal priorities of its mutex waiters.
NewPriority(k, t) ==
    LET ps == {k.nominal_priority[t]} \cup
              {k.nominal_priority[k.wait_mutex_threads[t][i]] :
                   i \in 1..Len(k.wait_mutex_threads[t])}
    IN CHOOSE p \in ps : \A q \in ps : p <= q

RECURSIVE UpdatePriority(_, _)
\* UpdatePriority that recomputes the lock owner's priority also when the thread's own
\* priority comes out as it was.
UpdatePriority_RecomputeOwner(k, t) ==
    LET new_priority == NewPriority(k, t)
    IN IF new_priority = k.current_priority[t]
       THEN IF k.lock_owner[t] # NoThread
            THEN [k EXCEPT !.current_priority[k.lock_owner[t]] =
                               NewPriority(k, k.lock_owner[t])]
            ELSE k
       ELSE LET k1 == SetThreadPriority(k, k.scheduler[t], t, new_priority)
                k2 == [k1 EXCEPT !.current_priority[t] = new_priority]
            IN IF k2.lock_owner[t] # NoThread
               THEN UpdatePriority(k2, k2.lock_owner[t])
               ELSE k2

\* Thread::UpdatePriority
UpdatePriority(k, t) ==
    LET new_priority == NewPriority(k, t)
    IN IF new_priority = k.current_priority[t]
       THEN k
       ELSE LET k1 == SetThreadPriority(k, k.scheduler[t], t, new_priority)
                k2 == [k1 EXCEPT !.current_priority[t] = new_priority]
            IN IF k2.lock_owner[t] # NoThread
               THEN UpdatePriority(k2, k2.lock_owner[t])
               ELSE k2

\* SetPriority that stores the nominal priority and forgets UpdatePriority.
SetPriority_NoUpdate(k, t, priority) ==
    [k EXCEPT !.nominal_priority[t] = priority]

\* Thread::SetPriority
SetPriority(k, t, priority) ==
    IF ~(priority <= THREADPRIO_LOWEST /\ priority >= THREADPRIO_HIGHEST)
    THEN Fatal(k)
    ELSE UpdatePriority([k EXCEPT !.nominal_priority[t] = priority], t)

\* BoostPriority that goes through the nominal priority and its bookkeeping.
BoostPriority_SetNominal(k, t, priority) ==
    UpdatePriority([k EXCEPT !.nominal_priority[t] = priority], t)

\* Thread::BoostPriority
BoostPriority(k, t, priority) ==
    [SetThreadPriority(k, k.scheduler[t], t, priority)
        EXCEPT !.current_priority[t] = priority]

\* AddMutexWaiter without ASSERT(thread->lock_owner == nullptr).
AddMutexWaiter_NoOwnerAssert(k, owner, thread) ==
    IF k.lock_owner[thread] = owner
    THEN IF Contains(k.wait_mutex_threads[owner], thread) THEN k ELSE Fatal(k)
    ELSE IF Contains(k.wait_mutex_threads[owner], thread)
    THEN Fatal(k)
    ELSE UpdatePriority([k EXCEPT !.lock_owner[thread] = owner,
                                  !.wait_mutex_threads[owner] = Append(@, thread)],
                        owner)

\* AddMutexWaiter whose re-registration path recomputes the owner's priority.
AddMutexWaiter_Recompute(k, owner, thread) ==
    IF k.lock_owner[thread] = owner
    THEN IF Contains(k.wait_mutex_threads[owner], thread)
         THEN UpdatePriority(k, owner) ELSE Fatal(k)
    ELSE IF k.lock_owner[thread] # NoThread
    THEN Fatal(k)
    ELSE IF Contains(k.wait_mutex_threads[owner], thread)
    THEN Fatal(k)
    ELSE UpdatePriority([k EXCEPT !.lock_owner[thread] = owner,
                                  !.wait_mutex_threads[owner] = Append(@, thread)],
                        owner)

\* Thread::AddMutexWaiter, called on the owner with the waiting thread.
AddMutexWaiter(k, owner, thread) ==
    IF k.lock_owner[thread] = owner
    THEN IF Contains(k.wait_mutex_threads[owner], thread) THEN k ELSE Fatal(k)
    ELSE IF k.lock_owner[thread] # NoThread
    THEN Fatal(k)
    ELSE IF Contains(k.wait_mutex_threads[owner], thread)
    THEN Fatal(k)
    ELSE UpdatePriority([k EXCEPT !.lock_owner[thread] = owner,
                                  !.wait_mutex_threads[owner] = Append(@, thread)],
                        owner)

\* RemoveMutexWaiter that forgets to clear the waiter's lock_owner.
RemoveMutexWaiter_KeepOwner(k, owner, thread) ==
    IF k.lock_owner[thread] # owner
    THEN Fatal(k)
    ELSE IF ~Contains(k.wait_mutex_threads[owner], thread)
    THEN Fatal(k)
    ELSE UpdatePriority([k EXCEPT !.wait_mutex_threads[owner] = RemoveErase(@, thread)],
                        owner)

\* RemoveMutexWaiter that erases the waiter and clears its lock_owner before it checks
\* the assertions.
RemoveMutexWaiter_ClearFirst(k, owner, thread) ==
    LET k1 == [k EXCEPT !.wait_mutex_threads[owner] = RemoveErase(@, thread),
                        !.lock_owner[thread] = NoThread]
    IN IF k.lock_owner[thread] # owner
       THEN Fatal(k1)
       ELSE IF ~Contains(k.wait_mutex_threads[owner], thread)
       THEN Fatal(k1)
       ELSE UpdatePriority(k1, owner)

\* RemoveMutexWaiter that leaves the owner's priority as it is.
RemoveMutexWaiter_NoUpdate(k, owner, thread) ==
    IF k.lock_owner[thread] # owner
    THEN Fatal(k)
    ELSE IF ~Contains(k.wait_mutex_threads[owner], thread)
    THEN Fatal(k)
    ELSE [k EXCEPT !.wait_mutex_threads[owner] = RemoveErase(@, thread),
                   !.lock_owner[thread] = NoThread]

\* Thread::RemoveMutexWaiter, called on the owner with the waiting thread.
RemoveMutexWaiter(k, owner, thread) ==
    IF k.lock_owner[thread] # owner
    THEN Fatal(k)
    ELSE IF ~Contains(k.wait_mutex_threads[owner], thread)
    THEN Fatal(k)
    ELSE UpdatePriority([k EXCEPT !.wait_mutex_threads[owner] = RemoveErase(@, thread),
                                  !.lock_owner[thread] = NoThread],
                        owner)

\* boost::optional<s32>{}: no processor id.
NoProcessor == -1

\* GetNextProcessorId that scans the cores from the highest index down.
GetNextProcessorId_Highest(k, mask) ==
    LET free == {index \in Cores :
                    BitSet(mask, index) /\ GetCurrentThread(k, index) = NoThread}
    IN IF free = {} THEN NoProcessor
       ELSE CHOOSE index \in free : \A other \in free : index >= other

\* GetNextProcessorId that does not look at the mask.
GetNextProcessorId_AnyCore(k, mask) ==
    LET free == {index \in Cores : GetCurrentThread(k, index) = NoThread}
    IN IF free = {} THEN NoProcessor
       ELSE CHOOSE index \in free : \A other \in free : index <= other

\* GetNextProcessorId: the first enabled core that runs no thread.
GetNextProcessorId(k, mask) ==
    LET free == {index \in Cores :
                    BitSet(mask, index) /\ GetCurrentThread(k, index) = NoThread}
    IN IF free = {} THEN NoProcessor
       ELSE CHOOSE index \in free : \A other \in free : index <= other

\* The placement of ResumeFromWait without the ideal-core override.
ResumePlacement_NoIdeal(k, t) ==
    LET k0 == [k EXCEPT !.wakeup_callback[t] = "null", !.status[t] = "Ready"]
        scanned == GetNextProcessorId(k0, k0.affinity_mask[t])
        new_processor_id == IF scanned = NoProcessor THEN k0.processor_id[t] ELSE scanned
        k1 == IF new_processor_id # k0.processor_id[t]
              THEN AddThread(RemoveThread(k0, k0.scheduler[t], t),
                             new_processor_id, t, k0.current_priority[t])
              ELSE k0
        k2 == [k1 EXCEPT !.processor_id[t] = new_processor_id]
        k3 == UnscheduleThread(k2, k2.scheduler[t], t, k2.current_priority[t])
        k4 == ScheduleThread(k3, new_processor_id, t, k3.current_priority[t])
        k5 == [k4 EXCEPT !.scheduler[t] = new_processor_id]
    IN PrepareReschedule(k5, k5.processor_id[t])

\* The placement of ResumeFromWait that adds the thread to the new core's tracking set
\* without removing it from the previous one.
ResumePlacement_NoRemove(k, t) ==
    LET k0 == [k EXCEPT !.wakeup_callback[t] = "null", !.status[t] = "Ready"]
        scanned == GetNextProcessorId(k0, k0.affinity_mask[t])
        fallback == IF scanned = NoProcessor THEN k0.processor_id[t] ELSE scanned
        new_processor_id ==
            IF k0.ideal_core[t] # -1 /\ GetCurrentThread(k0, k0.ideal_core[t]) = NoThread
            THEN k0.ideal_core[t] ELSE fallback
        k1 == IF new_processor_id # k0.processor_id[t]
              THEN AddThread(k0, new_processor_id, t, k0.current_priority[t])
              ELSE k0
        k2 == [k1 EXCEPT !.processor_id[t] = new_processor_id]
        k3 == UnscheduleThread(k2, k2.scheduler[t], t, k2.current_priority[t])
        k4 == ScheduleThread(k3, new_processor_id, t, k3.current_priority[t])
        k5 == [k4 EXCEPT !.scheduler[t] = new_processor_id]
    IN IF ~(new_processor_id < 4) THEN Fatal(k0)
       ELSE PrepareReschedule(k5, k5.processor_id[t])

\* ResumePlacement that does not ask the resolved core to reschedule.
ResumePlacement_NoReschedule(k, t) ==
    LET k0 == [k EXCEPT !.wakeup_callback[t] = "null", !.status[t] = "Ready"]
        scanned == GetNextProcessorId(k0, k0.affinity_mask[t])
        fallback == IF scanned = NoProcessor THEN k0.processor_id[t] ELSE scanned
        new_processor_id ==
            IF k0.ideal_core[t] # -1 /\ GetCurrentThread(k0, k0.ideal_core[t]) = NoThread
            THEN k0.ideal_core[t] ELSE fallback
        k1 == IF new_processor_id # k0.processor_id[t]
              THEN AddThread(RemoveThread(k0, k0.scheduler[t], t),
                             new_processor_id, t, k0.current_priority[t])
              ELSE k0
        k2 == [k1 EXCEPT !.processor_id[t] = new_processor_id]
        k3 == UnscheduleThread(k2, k2.scheduler[t], t, k2.current_priority[t])
        k4 == ScheduleThread(k3, new_processor_id, t, k3.current_priority[t])
        k5 == [k4 EXCEPT !.scheduler[t] = new_processor_id]
    IN IF ~(new_processor_id < 4) THEN Fatal(k0)
       ELSE k5

\* Thread::ResumeFromWait after its switch: the callback is cleared, the thread becomes
\* Ready, a core is resolved and the thread is scheduled there.
ResumePlacement(k, t) ==
    LET k0 == [k EXCEPT !.wakeup_callback[t] = "null", !.status[t] = "Ready"]
        scanned == GetNextProcessorId(k0, k0.affinity_mask[t])
        fallback == IF scanned = NoProcessor THEN k0.processor_id[t] ELSE scanned
        new_processor_id ==
            IF k0.ideal_core[t] # -1 /\ GetCurrentThread(k0, k0.ideal_core[t]) = NoThread
            THEN k0.ideal_core[t] ELSE fallback
        k1 == IF new_processor_id # k0.processor_id[t]
              THEN AddThread(RemoveThread(k0, k0.scheduler[t], t),
                             new_processor_id, t, k0.current_priority[t])
              ELSE k0
        k2 == [k1 EXCEPT !.processor_id[t] = new_processor_id]
        k3 == UnscheduleThread(k2, k2.scheduler[t], t, k2.current_priority[t])
        k4 == ScheduleThread(k3, new_processor_id, t, k3.current_priority[t])
        k5 == [k4 EXCEPT !.scheduler[t] = new_processor_id]
    IN IF ~(new_processor_id < 4) THEN Fatal(k0)
       ELSE PrepareReschedule(k5, k5.processor_id[t])

\* ResumeFromWait whose switch has no Ready case, so that a Ready thread is placed again.
ResumeFromWait_NoReadyCase(k, t) ==
    IF k.wait_objects[t] # <<>> THEN Fatal(k)
    ELSE IF k.status[t] \in {"Running", "Dead"}
    THEN DebugFatal(k)
    ELSE ResumePlacement(k, t)

\* Thread::ResumeFromWait
ResumeFromWait(k, t) ==
    IF k.wait_objects[t] # <<>> THEN Fatal(k)
    ELSE IF k.status[t] = "Ready"
    THEN IF k.wakeup_callback[t] # "null" THEN Fatal(k) ELSE k
    ELSE IF k.status[t] \in {"Running", "Dead"}
    THEN DebugFatal(k)
    ELSE ResumePlacement(k, t)

\* ChangeCore whose fallback, when no enabled core is free, is core 0.
ChangeCore_FallbackZero(k, t, core, mask) ==
    LET k0 == [k EXCEPT !.ideal_core[t] = core, !.affinity_mask[t] = mask]
        scanned == GetNextProcessorId(k0, k0.affinity_mask[t])
        fallback == IF scanned = NoProcessor THEN 0 ELSE scanned
        new_processor_id ==
            IF k0.ideal_core[t] # -1 /\ GetCurrentThread(k0, k0.ideal_core[t]) = NoThread
            THEN k0.ideal_core[t] ELSE fallback
        k1 == IF new_processor_id # k0.processor_id[t]
              THEN AddThread(RemoveThread(k0, k0.scheduler[t], t),
                             new_processor_id, t, k0.current_priority[t])
              ELSE k0
        k2 == [k1 EXCEPT !.processor_id[t] = new_processor_id]
        k3 == UnscheduleThread(k2, k2.scheduler[t], t, k2.current_priority[t])
        k4 == ScheduleThread(k3, new_processor_id, t, k3.current_priority[t])
        k5 == [k4 EXCEPT !.scheduler[t] = new_processor_id]
    IN IF k0.status[t] # "Ready" THEN k0
       ELSE PrepareReschedule(k5, k5.processor_id[t])

\* ChangeCore that leaves the tracking sets alone when the core changes.
ChangeCore_KeepTracking(k, t, core, mask) ==
    LET k0 == [k EXCEPT !.ideal_core[t] = core, !.affinity_mask[t] = mask]
        scanned == GetNextProcessorId(k0, k0.affinity_mask[t])
        fallback == IF scanned = NoProcessor THEN k0.processor_id[t] ELSE scanned
        new_processor_id ==
            IF k0.ideal_core[t] # -1 /\ GetCurrentThread(k0, k0.ideal_core[t]) = NoThread
            THEN k0.ideal_core[t] ELSE fallback
        k2 == [k0 EXCEPT !.processor_id[t] = new_processor_id]
        k3 == UnscheduleThread(k2, k2.scheduler[t], t, k2.current_priority[t])
        k4 == ScheduleThread(k3, new_processor_id, t, k3.current_priority[t])
        k5 == [k4 EXCEPT !.scheduler[t] = new_processor_id]
    IN IF k0.status[t] # "Ready" THEN k0
       ELSE IF ~(new_processor_id < 4) THEN Fatal(k0)
       ELSE PrepareReschedule(k5, k5.processor_id[t])

\* Thread::ChangeCore
ChangeCore(k, t, core, mask) ==
    LET k0 == [k EXCEPT !.ideal_core[t] = core, !.affinity_mask[t] = mask]
        scanned == GetNextProcessorId(k0, k0.affinity_mask[t])
        fallback == IF scanned = NoProcessor THEN k0.processor_id[t] ELSE scanned
        new_processor_id ==
            IF k0.ideal_core[t] # -1 /\ GetCurrentThread(k0, k0.ideal_core[t]) = NoThread
            THEN k0.ideal_core[t] ELSE fallback
        k1 == IF new_processor_id # k0.processor_id[t]
              THEN AddThread(RemoveThread(k0, k0.scheduler[t], t),
                             new_processor_id, t, k0.current_priority[t])
              ELSE k0
        k2 == [k1 EXCEPT !.processor_id[t] = new_processor_id]
        k3 == UnscheduleThread(k2, k2.scheduler[t], t, k2.current_priority[t])
        k4 == ScheduleThread(k3, new_processor_id, t, k3.current_priority[t])
        k5 == [k4 EXCEPT !.scheduler[t] = new_processor_id]
    IN IF k0.status[t] # "Ready" THEN k0
       ELSE IF ~(new_processor_id < 4) THEN Fatal(k0)
       ELSE PrepareReschedule(k5, k5.processor_id[t])

\* WakeAfterDelay without the test for the wait-forever value.
WakeAfterDelay_NoSentinel(k, t, nanoseconds) ==
    ScheduleEventThreadsafe(k, nsToCycles(nanoseconds), k.callback_handle[t])

\* Thread::WakeAfterDelay
WakeAfterDelay(k, t, nanoseconds) ==
    IF nanoseconds = -1 THEN k
    ELSE ScheduleEventThreadsafe(k, nsToCycles(nanoseconds), k.callback_handle[t])

\* Thread::CancelWakeupTimer
CancelWakeupTimer(k, t) == UnscheduleEvent(k, k.callback_handle[t])

\* ------------------------------------------------------------ WaitObject
\* WaitObject::RemoveWaitingThread
RemoveWaitingThread(k, object, t) ==
    [k EXCEPT !.waiting_threads[object] = RemoveErase(@, t)]

\* Thread::ShouldWait: a thread object is available once the thread is Dead.
ShouldWait(k, object) == k.status[object] # "Dead"

RECURSIVE RemoveFromWaitObjects(_, _, _)
\* for (auto& object : wait_objects) object->RemoveWaitingThread(thread), from index i on
RemoveFromWaitObjects(k, t, i) ==
    IF i > Len(k.wait_objects[t]) THEN k
    ELSE RemoveFromWaitObjects(RemoveWaitingThread(k, k.wait_objects[t][i], t), t, i + 1)

\* The loop followed by wait_objects.clear()
ClearWaitObjects(k, t) ==
    [RemoveFromWaitObjects(k, t, 1) EXCEPT !.wait_objects[t] = <<>>]

\* WaitObject::GetHighestPriorityReadyThread: the most urgent waiter that can take the
\* object (a wait-all waiter needs all of its objects), or NoThread.
GetHighestPriorityReadyThread(k, object) ==
    LET ready == {i \in 1..Len(k.waiting_threads[object]) :
                     LET t == k.waiting_threads[object][i]
                     IN /\ ~ShouldWait(k, object)
                        /\ k.status[t] = "WaitSynchAll" =>
                               \A j \in 1..Len(k.wait_objects[t]) :
                                   ~ShouldWait(k, k.wait_objects[t][j])}
    IN IF ready = {} THEN NoThread
       ELSE k.waiting_threads[object][
                CHOOSE i \in ready : \A j \in ready :
                    \/ k.current_priority[k.waiting_threads[object][i]]
                           < k.current_priority[k.waiting_threads[object][j]]
                    \/ /\ k.current_priority[k.waiting_threads[object][i]]
                              = k.current_priority[k.waiting_threads[object][j]]
                       /\ i <= j]

\* The thread is still registered for a wait: it has wait objects or is in a waiter list.
Registered(k, t) ==
    \/ k.wait_objects[t] # <<>>
    \/ \E o \in Objects : Contains(k.waiting_threads[o], t)

\* thread->wakeup_callback(reason, thread, ...): the call is recorded with the reason it
\* is given and with whether it finds the thread still registered for its wait.
InvokeWakeupCallback(k, t, reason) ==
    [k EXCEPT !.invocations[t] =
                  Append(@, [reason |-> reason, registered |-> Registered(k, t)])]

\* WaitObject::WakeupWaitingThread: the waiter leaves all its objects, its timer is
\* cancelled, and it resumes unless its callback (reason Signal) vetoes.
WakeupWaitingThread(k, object, t) ==
    LET k1 == CancelWakeupTimer(ClearWaitObjects(k, t), t)
        k2 == IF k1.wakeup_callback[t] # "null"
              THEN InvokeWakeupCallback(k1, t, "Signal") ELSE k1
    IN IF k2.wakeup_callback[t] = "veto" THEN k2 ELSE ResumeFromWait(k2, t)

RECURSIVE WakeupAllWaitingThreads(_, _)
\* WaitObject::WakeupAllWaitingThreads
WakeupAllWaitingThreads(k, object) ==
    LET t == GetHighestPriorityReadyThread(k, object)
    IN IF t = NoThread \/ k.crashed THEN k
       ELSE WakeupAllWaitingThreads(WakeupWaitingThread(k, object, t), object)

\* ------------------------------------------------------------ Thread, continued
\* Stop that clears wait_objects without deregistering from the objects' waiter lists.
Stop_KeepWaiters(k, t) ==
    LET k1 == [HandleClose(UnscheduleEvent(k, k.callback_handle[t]), k.callback_handle[t])
                  EXCEPT !.callback_handle[t] = 0]
        k2 == IF k1.status[t] = "Ready"
              THEN UnscheduleThread(k1, k1.scheduler[t], t, k1.current_priority[t])
              ELSE k1
        k3 == WakeupAllWaitingThreads([k2 EXCEPT !.status[t] = "Dead"], t)
        k4 == [k3 EXCEPT !.wait_objects[t] = <<>>]
        tls_page == k4.tls_address[t] \div PAGE_SIZE
        tls_slot == (k4.tls_address[t] % PAGE_SIZE) \div TLS_ENTRY_SIZE
    IN IF k3.crashed THEN k3
       ELSE [k4 EXCEPT !.tls_slots[tls_page + 1] = @ \ {tls_slot}]

\* Stop that wakes the threads waiting on the thread before it marks the thread Dead.
Stop_WakeBeforeDead(k, t) ==
    LET k1 == [HandleClose(UnscheduleEvent(k, k.callback_handle[t]), k.callback_handle[t])
                  EXCEPT !.callback_handle[t] = 0]
        k2 == IF k1.status[t] = "Ready"
              THEN UnscheduleThread(k1, k1.scheduler[t], t, k1.current_priority[t])
              ELSE k1
        k3 == [WakeupAllWaitingThreads(k2, t) EXCEPT !.status[t] = "Dead"]
        k4 == ClearWaitObjects(k3, t)
        tls_page == k4.tls_address[t] \div PAGE_SIZE
        tls_slot == (k4.tls_address[t] % PAGE_SIZE) \div TLS_ENTRY_SIZE
    IN IF k3.crashed THEN k3
       ELSE [k4 EXCEPT !.tls_slots[tls_page + 1] = @ \ {tls_slot}]

\* Thread::Stop
Stop(k, t) ==
    LET k1 == [HandleClose(UnscheduleEvent(k, k.callback_handle[t]), k.callback_handle[t])
                  EXCEPT !.callback_handle[t] = 0]
        k2 == IF k1.status[t] = "Ready"
              THEN UnscheduleThread(k1, k1.scheduler[t], t, k1.current_priority[t])
              ELSE k1
        k3 == WakeupAllWaitingThreads([k2 EXCEPT !.status[t] = "Dead"], t)
        k4 == ClearWaitObjects(k3, t)
        tls_page == k4.tls_address[t] \div PAGE_SIZE
        tls_slot == (k4.tls_address[t] % PAGE_SIZE) \div TLS_ENTRY_SIZE
    IN IF k3.crashed THEN k3
       ELSE [k4 EXCEPT !.tls_slots[tls_page + 1] = @ \ {tls_slot}]

\* WaitCurrentThread_Sleep, for the current thread of core c
WaitCurrentThread_Sleep(k, c) ==
    [k EXCEPT !.status[GetCurrentThread(k, c)] = "WaitSleep"]

\* ExitCurrentThread, for the current thread of core c
ExitCurrentThread(k, c) ==
    RemoveThread(Stop(k, GetCurrentThread(k, c)), c, GetCurrentThread(k, c))

\* WakeupSynch that leaves the waiter lists and keeps wait_objects.
WakeupSynch_NoClear(k, thread) ==
    IF k.status[thread] \in SynchStatuses
    THEN LET k1 == RemoveFromWaitObjects(k, thread, 1)
         IN IF k1.wakeup_callback[thread] # "null"
            THEN InvokeWakeupCallback(k1, thread, "Timeout")
            ELSE k1
    ELSE k

\* WakeupSynch that invokes the callback first and deregisters the thread afterwards.
WakeupSynch_InvokeFirst(k, thread) ==
    IF k.status[thread] \in SynchStatuses
    THEN ClearWaitObjects(IF k.wakeup_callback[thread] # "null"
                          THEN InvokeWakeupCallback(k, thread, "Timeout")
                          ELSE k,
                          thread)
    ELSE k

\* WakeupSynch that clears wait_objects and leaves the thread in the waiter lists.
WakeupSynch_KeepWaiters(k, thread) ==
    IF k.status[thread] \in SynchStatuses
    THEN LET k1 == [k EXCEPT !.wait_objects[thread] = <<>>]
         IN IF k1.wakeup_callback[thread] # "null"
            THEN InvokeWakeupCallback(k1, thread, "Timeout")
            ELSE k1
    ELSE k

\* ThreadWakeupCallback, the part for a thread waiting on synchronization objects: it
\* leaves the waiter lists, its wait_objects are cleared and its callback is invoked.
WakeupSynch(k, thread) ==
    IF k.status[thread] \in SynchStatuses
    THEN LET k1 == ClearWaitObjects(k, thread)
         IN IF k1.wakeup_callback[thread] # "null"
            THEN InvokeWakeupCallback(k1, thread, "Timeout")
            ELSE k1
    ELSE k

\* `resume` that ignores what the callback returned.
WakeupResumes_Always(k, thread) == TRUE

\* ThreadWakeupCallback: the value of `resume` after that part.
WakeupResumes(k, thread) ==
    ~(k.status[thread] \in SynchStatuses /\ k.wakeup_callback[thread] = "veto")

\* The mutex part that leaves the thread with its lock owner.
WakeupMutex_NoRemove(k, thread) ==
    IF k.mutex_wait_address[thread] # 0 \/ k.condvar_wait_address[thread] # 0
           \/ k.wait_handle[thread] # 0
    THEN IF k.status[thread] # "WaitMutex" THEN Fatal(k)
         ELSE [k EXCEPT !.mutex_wait_address[thread] = 0,
                        !.condvar_wait_address[thread] = 0,
                        !.wait_handle[thread] = 0]
    ELSE k

\* ThreadWakeupCallback, the part for a mutex or condition variable wait.
WakeupMutex(k, thread) ==
    IF k.mutex_wait_address[thread] # 0 \/ k.condvar_wait_address[thread] # 0
           \/ k.wait_handle[thread] # 0
    THEN IF k.status[thread] # "WaitMutex" THEN Fatal(k)
         ELSE LET k1 == [k EXCEPT !.mutex_wait_address[thread] = 0,
                                  !.condvar_wait_address[thread] = 0,
                                  !.wait_handle[thread] = 0]
              IN IF k1.lock_owner[thread] # NoThread
                 THEN RemoveMutexWaiter(k1, k1.lock_owner[thread], thread)
                 ELSE k1
    ELSE k

\* ThreadWakeupCallback, the part for an address arbitration wait.
WakeupArb(k, thread) ==
    IF k.arb_wait_address[thread] # 0
    THEN IF k.status[thread] # "WaitArb" THEN Fatal(k)
         ELSE [k EXCEPT !.arb_wait_address[thread] = 0]
    ELSE k

\* ThreadWakeupCallback up to its last statement: the state in which it decides whether
\* to call ResumeFromWait.
WakeupBeforeResume(k, thread) ==
    LET k1 == WakeupSynch(k, thread)
        k2 == WakeupMutex(k1, thread)
    IN IF k2.crashed THEN k2 ELSE WakeupArb(k2, thread)

\* ThreadWakeupCallback that looks only at the handle's slot, not at its generation.
ThreadWakeupCallback_BySlot(k, thread_handle) ==
    LET thread == IF HandleSlot(thread_handle) \in HandleSlots
                  THEN k.handle_objects[HandleSlot(thread_handle)] ELSE NoThread
        k3 == WakeupBeforeResume(k, thread)
    IN IF thread = NoThread THEN k
       ELSE IF k3.crashed \/ ~WakeupResumes(k, thread) THEN k3
       ELSE ResumeFromWait(k3, thread)

\* ThreadWakeupCallback
ThreadWakeupCallback(k, thread_handle) ==
    LET thread == HandleGet(k, thread_handle)
        k3 == WakeupBeforeResume(k, thread)
    IN IF thread = NoThread THEN k
       ELSE IF k3.crashed \/ ~WakeupResumes(k, thread) THEN k3
       ELSE ResumeFromWait(k3, thread)

\* ThreadWakeupCallback without its lock_guard: the timer's host thread leaves the lock
\* as it is.
LockGuard_None(k, holder) ==
    IF holder = "timer" THEN k ELSE [k EXCEPT !.hle_lock = holder]

\* std::lock_guard<std::recursive_mutex> lock(HLE::g_hle_lock), once the lock is free: the
\* host thread `holder` ("timer" or "core") holds it.
LockGuard(k, holder) == [k EXCEPT !.hle_lock = holder]

\* The lock_guard's destructor: the holder releases the lock it took.
Unlock(k, holder) == IF k.hle_lock = holder THEN [k EXCEPT !.hle_lock = "free"] ELSE k

\* A return of ThreadWakeupCallback: the lock_guard is destroyed and the timer's host
\* thread is done with the event.
CallbackReturn(k) ==
    [Unlock(k, "timer") EXCEPT !.in_flight = Tail(@),
                               !.callback_pc = [at |-> "idle", thread |-> NoThread],
                               !.resume = TRUE]

\* ThreadWakeupCallback statement by statement, for the event at the head of in_flight.
\* Its first statement takes the kernel lock.
CallbackEnter(k) ==
    [LockGuard(k, "timer") EXCEPT !.callback_pc = [at |-> "lookup", thread |-> NoThread]]

\* The handle lookup, and `bool resume = true`; an invalid handle returns.
CallbackLookup(k) ==
    LET thread == HandleGet(k, Head(k.in_flight).handle)
    IN IF thread = NoThread THEN CallbackReturn(k)
       ELSE [k EXCEPT !.callback_pc = [at |-> "synch", thread |-> thread],
                      !.resume = TRUE]

\* The part for the synchronization wait statuses, which assigns `resume`.
CallbackSynch(k) ==
    [WakeupSynch(k, k.callback_pc.thread)
        EXCEPT !.resume = WakeupResumes(k, k.callback_pc.thread),
               !.callback_pc.at = "mutex"]

\* The part for a mutex or condition variable wait.
CallbackMutex(k) ==
    LET k1 == WakeupMutex(k, k.callback_pc.thread)
    IN IF k1.crashed THEN k1 ELSE [k1 EXCEPT !.callback_pc.at = "arb"]

\* The part for an address arbiter wait.
CallbackArb(k) ==
    LET k1 == WakeupArb(k, k.callback_pc.thread)
    IN IF k1.crashed THEN k1 ELSE [k1 EXCEPT !.callback_pc.at = "resume"]

\* if (resume) thread->ResumeFromWait(), and the return.
CallbackResume(k) ==
    LET k1 == IF k.resume THEN ResumeFromWait(k, k.callback_pc.thread) ELSE k
    IN IF k1.crashed THEN k1 ELSE CallbackReturn(k1)

\* GetFreeThreadLocalSlot: <<page, slot, alloc_needed>>, pages and slots counted from 0.
GetFreeThreadLocalSlot(slots) ==
    LET pages == {page \in 1..Len(slots) : Cardinality(slots[page]) < TLS_SLOTS_PER_PAGE}
        page == CHOOSE x \in pages : \A y \in pages : x <= y
        free == (0..(TLS_SLOTS_PER_PAGE - 1)) \ slots[page]
    IN IF pages = {} THEN <<0, 0, TRUE>>
       ELSE <<page - 1, CHOOSE x \in free : \A y \in free : x <= y, FALSE>>

\* The result code of Thread::Create
CreateResult(k, priority, core, entry_valid) ==
    IF priority > THREADPRIO_LOWEST THEN "ERR_OUT_OF_RANGE"
    ELSE IF core > THREADPROCESSORID_MAX THEN "ERR_OUT_OF_RANGE_KERNEL"
    ELSE IF ~entry_valid THEN "ResultCode(-1)"
    ELSE "RESULT_SUCCESS"

\* Thread::Create
Create(k, priority, core, entry_valid) ==
    IF CreateResult(k, priority, core, entry_valid) # "RESULT_SUCCESS"
    THEN k
    ELSE LET t == k.next_thread_id
             k1 == [k EXCEPT !.next_thread_id = @ + 1,
                             !.status[t] = "Dormant",
                             !.nominal_priority[t] = priority,
                             !.current_priority[t] = priority,
                             !.processor_id[t] = core,
                             !.ideal_core[t] = core,
                             !.affinity_mask[t] = Bit(core),
                             !.wait_objects[t] = <<>>,
                             !.mutex_wait_address[t] = 0,
                             !.condvar_wait_address[t] = 0,
                             !.wait_handle[t] = 0,
                             !.callback_handle[t] = NewHandle(k),
                             !.scheduler[t] = core]
             k2 == AddThread(HandleCreate(k1, t), core, t, priority)
             found == GetFreeThreadLocalSlot(k2.tls_slots)
             k3 == IF found[3] THEN [k2 EXCEPT !.tls_slots = Append(@, {})] ELSE k2
             available_page == IF found[3] THEN Len(k3.tls_slots) - 1 ELSE found[1]
             available_slot == IF found[3] THEN 0 ELSE found[2]
         IN [k3 EXCEPT !.tls_slots[available_page + 1] = @ \cup {available_slot},
                       !.tls_address[t] = available_page * PAGE_SIZE
                                          + available_slot * TLS_ENTRY_SIZE]

\* What the build can make of Thread::Create once a negative processor_id has passed
\* the checks: 1ULL << processor_id and Scheduler(processor_id) are undefined.
UndefinedOutcomes == {"crash", "wrapped"}

\* Thread::Create with a negative processor_id.  "crash": the out-of-bounds scheduler
\* access ends the process.  "wrapped": the shift count is taken modulo 64, which sets
\* bit 64 + processor_id and none of the core bits that affinity_mask holds here, and
\* the access yields no scheduler of a core, so the thread is in no tracking set.
CreateUndefined(k, priority, core, outcome) ==
    LET t == k.next_thread_id
        k1 == [k EXCEPT !.next_thread_id = @ + 1,
                        !.status[t] = "Dormant",
                        !.nominal_priority[t] = priority,
                        !.current_priority[t] = priority,
                        !.processor_id[t] = core,
                        !.ideal_core[t] = core,
                        !.affinity_mask[t] = 0,
                        !.wait_objects[t] = <<>>,
                        !.mutex_wait_address[t] = 0,
                        !.condvar_wait_address[t] = 0,
                        !.wait_handle[t] = 0,
                        !.callback_handle[t] = NewHandle(k),
                        !.scheduler[t] = core]
        k2 == HandleCreate(k1, t)
        found == GetFreeThreadLocalSlot(k2.tls_slots)
        k3 == IF found[3] THEN [k2 EXCEPT !.tls_slots = Append(@, {})] ELSE k2
        available_page == IF found[3] THEN Len(k3.tls_slots) - 1 ELSE found[1]
        available_slot == IF found[3] THEN 0 ELSE found[2]
    IN IF outcome = "crash" THEN Fatal(k)
       ELSE [k3 EXCEPT !.tls_slots[available_page + 1] = @ \cup {available_slot},
                       !.tls_address[t] = available_page * PAGE_SIZE
                                          + available_slot * TLS_ENTRY_SIZE]

\* ------------------------------------------------------------ system calls
\* The syscall layer's condition-variable wait with a timeout, issued by the thread
\* running on core c: it blocks in WaitMutex and arms its wakeup timer.
WaitProcessWideKeyAtomic(k, c, nanoseconds) ==
    LET t == GetCurrentThread(k, c)
        k1 == [k EXCEPT !.condvar_wait_address[t] = 1,
                        !.mutex_wait_address[t] = 1,
                        !.wait_handle[t] = 1,
                        !.status[t] = "WaitMutex",
                        !.wakeup_callback[t] = "null"]
    IN PrepareReschedule(WakeAfterDelay(k1, t, nanoseconds), c)

\* The syscall layer's wait-any on a sequence of distinct objects, issued by the thread
\* running on core c: it returns at once when an object is available, otherwise the
\* thread registers with every object, blocks in WaitSynchAny with the given wakeup
\* callback ("resume" or "veto", what the callback will return) and arms its timer.
WaitSynchronizationHook(k, c, objects, nanoseconds, callback) ==
    LET t == GetCurrentThread(k, c)
        k1 == [k EXCEPT !.waiting_threads =
                            [o \in Objects |->
                                IF Contains(objects, o) /\ ~Contains(k.waiting_threads[o], t)
                                THEN Append(k.waiting_threads[o], t)
                                ELSE k.waiting_threads[o]],
                        !.wait_objects[t] = objects,
                        !.status[t] = "WaitSynchAny",
                        !.wakeup_callback[t] = callback,
                        !.invocations[t] = <<>>]
    IN IF \E i \in 1..Len(objects) : ~ShouldWait(k, objects[i])
       THEN k
       ELSE PrepareReschedule(WakeAfterDelay(k1, t, nanoseconds), c)

\* The wait-any with the default wakeup callback, which lets the thread resume.
WaitSynchronization(k, c, objects, nanoseconds) ==
    WaitSynchronizationHook(k, c, objects, nanoseconds, "resume")

\* The syscall layer's condition-variable signal for one waiting thread whose mutex is
\* free: the thread is resumed, leaves its lock owner's waiters and forgets its wait.
SignalProcessWideKey(k, t) ==
    LET k1 == ResumeFromWait(k, t)
        k2 == IF k1.lock_owner[t] # NoThread
              THEN RemoveMutexWaiter(k1, k1.lock_owner[t], t)
              ELSE k1
    IN IF k1.crashed \/ k2.crashed THEN Fatal(k)
       ELSE [k2 EXCEPT !.mutex_wait_address[t] = 0,
                       !.condvar_wait_address[t] = 0,
                       !.wait_handle[t] = 0]

\* The syscall layer's address arbitration wait with a timeout, issued by the thread
\* running on core c: it blocks in WaitArb and arms its wakeup timer.
WaitForAddress(k, c, nanoseconds) ==
    LET t == GetCurrentThread(k, c)
        k1 == [k EXCEPT !.arb_wait_address[t] = 1,
                        !.status[t] = "WaitArb",
                        !.wakeup_callback[t] = "null"]
    IN PrepareReschedule(WakeAfterDelay(k1, t, nanoseconds), c)

\* The syscall layer's sleep, issued by the thread running on core c.
SleepThread(k, c, nanoseconds) ==
    LET t == GetCurrentThread(k, c)
    IN PrepareReschedule(WakeAfterDelay(WaitCurrentThread_Sleep(k, c), t, nanoseconds), c)

\* ------------------------------------------------------------------ actions
Created(t) == status[t] # "None"

\* ThreadingInit, an empty process and idle cores, in a build with or without _DEBUG
Boot(debug) ==
    /\ status = [t \in ThreadIds |-> "None"]
    /\ nominal_priority = [t \in ThreadIds |-> THREADPRIO_HIGHEST]
    /\ current_priority = [t \in ThreadIds |-> THREADPRIO_HIGHEST]
    /\ lock_owner = [t \in ThreadIds |-> NoThread]
    /\ wait_mutex_threads = [t \in ThreadIds |-> <<>>]
    /\ processor_id = [t \in ThreadIds |-> 0]
    /\ ideal_core = [t \in ThreadIds |-> 0]
    /\ affinity_mask = [t \in ThreadIds |-> 0]
    /\ scheduler = [t \in ThreadIds |-> 0]
    /\ wait_objects = [t \in ThreadIds |-> <<>>]
    /\ wakeup_callback = [t \in ThreadIds |-> "null"]
    /\ mutex_wait_address = [t \in ThreadIds |-> 0]
    /\ condvar_wait_address = [t \in ThreadIds |-> 0]
    /\ wait_handle = [t \in ThreadIds |-> 0]
    /\ arb_wait_address = [t \in ThreadIds |-> 0]
    /\ callback_handle = [t \in ThreadIds |-> 0]
    /\ tls_address = [t \in ThreadIds |-> 0]
    /\ waiting_threads = [o \in Objects |-> <<>>]
    /\ thread_list = [c \in Cores |-> <<>>]
    /\ ready_queue = [c \in Cores |-> [p \in Priorities |-> <<>>]]
    /\ current_thread = [c \in Cores |-> NoThread]
    /\ reschedule_pending = [c \in Cores |-> FALSE]
    /\ handle_objects = [s \in HandleSlots |-> NoThread]
    /\ handle_generations = [s \in HandleSlots |-> 0]
    /\ next_generation = 1
    /\ events = <<>>
    /\ in_flight = <<>>
    /\ invocations = [t \in ThreadIds |-> <<>>]
    /\ hle_lock = "free"
    /\ callback_pc = [at |-> "idle", thread |-> NoThread]
    /\ resume = TRUE
    /\ ticks = 0
    /\ tls_slots = <<>>
    /\ next_thread_id = 1
    /\ crashed = FALSE
    /\ debug_build = debug
    /\ last = Call("ThreadingInit", "ok")

\* The release build
Init == Boot(FALSE)

\* Either build
InitAnyBuild == \E debug \in BOOLEAN : Boot(debug)

\* What a scenario records of a step: the call and how it ended, or nothing.
Note(op, res) == last' = Call(op, res)

Quiet == UNCHANGED last

\* Thread::Create of a thread of the scenario's first `limit` threads
DoCreate(limit, priority, core) ==
    /\ ~crashed
    /\ next_thread_id <= limit
    /\ Commit(Create(K, priority, core, TRUE))

\* Thread::Create with any arguments; `outcome` is what the build makes of the
\* undefined behaviour of a negative processor_id.
DoCreateWith(limit, priority, core, entry_valid, outcome) ==
    /\ ~crashed
    /\ next_thread_id <= limit
    /\ Commit(IF CreateResult(K, priority, core, entry_valid) = "RESULT_SUCCESS" /\ core < 0
              THEN CreateUndefined(K, priority, core, outcome)
              ELSE Create(K, priority, core, entry_valid))

\* What the caller of Thread::Create observes.
CreateOutcome(priority, core, entry_valid, outcome) ==
    IF CreateResult(K, priority, core, entry_valid) = "RESULT_SUCCESS" /\ core < 0
           /\ outcome = "crash"
    THEN "crash"
    ELSE CreateResult(K, priority, core, entry_valid)

DoSetPriority(t, priority) ==
    /\ ~crashed /\ Created(t)
    /\ Commit(SetPriority(K, t, priority))

DoBoostPriority(t, priority) ==
    /\ ~crashed /\ Created(t)
    /\ Commit(BoostPriority(K, t, priority))

DoUpdatePriority(t) ==
    /\ ~crashed /\ Created(t)
    /\ Commit(UpdatePriority(K, t))

DoAddMutexWaiter(owner, thread) ==
    /\ ~crashed /\ Created(owner) /\ Created(thread)
    /\ Commit(AddMutexWaiter(K, owner, thread))

\* "noop" for the idempotent re-registration
AddMutexWaiterOutcome(owner, thread) ==
    IF lock_owner[thread] = owner /\ Contains(wait_mutex_threads[owner], thread)
    THEN "noop" ELSE Outcome(AddMutexWaiter(K, owner, thread))

DoRemoveMutexWaiter(owner, thread) ==
    /\ ~crashed /\ Created(owner) /\ Created(thread)
    /\ Commit(RemoveMutexWaiter(K, owner, thread))

\* "waiter recomputed" when the recursion of UpdatePriority comes back to the waiter
\* and changes its current priority.
RemoveMutexWaiterOutcome(owner, thread) ==
    LET k == RemoveMutexWaiter(K, owner, thread)
    IN IF k.crashed THEN "assert"
       ELSE IF k.current_priority[thread] # current_priority[thread]
       THEN "waiter recomputed" ELSE "ok"

DoResumeFromWait(t) ==
    /\ ~crashed /\ Created(t)
    /\ Commit(ResumeFromWait(K, t))

\* Which rule of the placement text decides the core of thread t with ideal core
\* `core` and affinity mask `mask`: the ideal-core override, the free-core scan or the
\* fallback to the previous processor_id.
PlacementRule(t, core, mask) ==
    IF core # -1 /\ GetCurrentThread(K, core) = NoThread THEN "ideal"
    ELSE IF GetNextProcessorId(K, mask) # NoProcessor THEN "scan"
    ELSE "fallback"

\* "noop" for the duplicate wakeup of a Ready thread, "ignored" for a Running or Dead
\* thread, otherwise the placement rule that was applied.
ResumeFromWaitOutcome(t) ==
    IF ResumeFromWait(K, t).crashed THEN "assert"
    ELSE IF status[t] = "Ready" THEN "noop"
    ELSE IF status[t] \in {"Running", "Dead"} THEN "ignored"
    ELSE PlacementRule(t, ideal_core[t], affinity_mask[t])

DoChangeCore(t, core, mask) ==
    /\ ~crashed /\ Created(t)
    /\ Commit(ChangeCore(K, t, core, mask))

\* "stored" when the thread is not Ready and only the hint and the mask are kept,
\* otherwise the placement rule that was applied.
ChangeCoreOutcome(t, core, mask) ==
    IF ChangeCore(K, t, core, mask).crashed THEN "assert"
    ELSE IF status[t] # "Ready" THEN "stored"
    ELSE PlacementRule(t, core, mask)

\* The execution loop of core c polls its reschedule request.
DoReschedule(c) ==
    /\ ~crashed /\ reschedule_pending[c]
    /\ Commit(Reschedule(K, c))

DoWaitProcessWideKeyAtomic(c, nanoseconds) ==
    /\ ~crashed
    /\ current_thread[c] # NoThread /\ status[current_thread[c]] = "Running"
    /\ Commit(WaitProcessWideKeyAtomic(K, c, nanoseconds))

DoStop(t) ==
    /\ ~crashed /\ Created(t)
    /\ Commit(Stop(K, t))

DoWaitSynchronization(c, objects, nanoseconds) ==
    /\ ~crashed
    /\ current_thread[c] # NoThread /\ status[current_thread[c]] = "Running"
    /\ \A i \in 1..Len(objects) : Created(objects[i]) /\ objects[i] # current_thread[c]
    /\ Commit(WaitSynchronization(K, c, objects, nanoseconds))

DoWaitSynchronizationHook(c, objects, nanoseconds, callback) ==
    /\ ~crashed
    /\ current_thread[c] # NoThread /\ status[current_thread[c]] = "Running"
    /\ \A i \in 1..Len(objects) : Created(objects[i]) /\ objects[i] # current_thread[c]
    /\ Commit(WaitSynchronizationHook(K, c, objects, nanoseconds, callback))

\* CoreTiming::Advance runs the callback of the i-th event, which is due and the earliest.
FireEvent(i) ==
    /\ ~crashed
    /\ i \in 1..Len(events)
    /\ events[i].time <= ticks
    /\ \A j \in 1..Len(events) : events[i].time <= events[j].time
    /\ Commit(ThreadWakeupCallback(
           [K EXCEPT !.events = SubSeq(events, 1, i - 1) \o SubSeq(events, i + 1, Len(events))],
           events[i].handle))

\* "invalid" for a handle that resolves to no thread
FireEventOutcome(i) ==
    IF HandleGet(K, events[i].handle) = NoThread THEN "invalid"
    ELSE Outcome(ThreadWakeupCallback(K, events[i].handle))

\* Thread::WakeAfterDelay while fewer than `limit` events are pending
DoWakeAfterDelay(limit, t, nanoseconds) ==
    /\ ~crashed /\ Created(t)
    /\ Len(events) < limit
    /\ Commit(WakeAfterDelay(K, t, nanoseconds))

DoWaitForAddress(c, nanoseconds) ==
    /\ ~crashed
    /\ current_thread[c] # NoThread /\ status[current_thread[c]] = "Running"
    /\ Commit(WaitForAddress(K, c, nanoseconds))

\* What the timer finds when it fires the i-th event: the wait of the event's thread.
TimeoutOutcome(i) ==
    LET t == HandleGet(K, events[i].handle)
    IN IF t = NoThread THEN "invalid"
       ELSE IF status[t] = "WaitMutex" /\ lock_owner[t] # NoThread THEN "WaitMutex, owned"
       ELSE status[t]

DoSleepThread(c, nanoseconds) ==
    /\ ~crashed
    /\ current_thread[c] # NoThread /\ status[current_thread[c]] = "Running"
    /\ Commit(SleepThread(K, c, nanoseconds))

DoSignalProcessWideKey(t) ==
    /\ ~crashed /\ Created(t)
    /\ status[t] = "WaitMutex" /\ condvar_wait_address[t] # 0
    /\ Commit(SignalProcessWideKey(K, t))

\* Virtual time advances by one cycle.
Advance ==
    /\ ~crashed
    /\ ticks < MaxTicks
    /\ Commit(AddTicks(K, 1))

\* CoreTiming::Advance takes the i-th event, which is due and the earliest, off the
\* queue; it runs one callback at a time.
DoTakeEvent(i) ==
    /\ ~crashed
    /\ in_flight = <<>>
    /\ i \in 1..Len(events)
    /\ events[i].time <= ticks
    /\ \A j \in 1..Len(events) : events[i].time <= events[j].time
    /\ Commit(TakeEvent(K, i))

\* The callback that was called gets the kernel lock and runs.
RunCallback ==
    /\ ~crashed
    /\ in_flight # <<>>
    /\ Commit(ThreadWakeupCallback([K EXCEPT !.in_flight = Tail(@)], Head(in_flight).handle))

\* The callback that was called waits for the kernel lock and takes it.
DoCallbackEnter ==
    /\ ~crashed
    /\ in_flight # <<>> /\ callback_pc.at = "idle"
    /\ hle_lock = "free"
    /\ Commit(CallbackEnter(K))

\* The next statement of the callback in progress.
DoCallbackStep ==
    /\ ~crashed
    /\ callback_pc.at # "idle"
    /\ Commit(CASE callback_pc.at = "lookup" -> CallbackLookup(K)
                [] callback_pc.at = "synch" -> CallbackSynch(K)
                [] callback_pc.at = "mutex" -> CallbackMutex(K)
                [] callback_pc.at = "arb" -> CallbackArb(K)
                [] callback_pc.at = "resume" -> CallbackResume(K))

\* A core's host thread enters the kernel (a system call or the core's reschedule) and
\* takes the kernel lock.
DoCoreLock ==
    /\ ~crashed
    /\ hle_lock = "free"
    /\ Commit(LockGuard(K, "core"))

\* The kernel operation of the core that holds the lock, which leads to state k, and the
\* release of the lock.
DoCoreCall(k) ==
    /\ ~crashed
    /\ hle_lock = "core"
    /\ Commit(Unlock(k, "core"))

\* "invalid" for a handle that resolves to no thread
RunCallbackOutcome ==
    IF HandleGet(K, Head(in_flight).handle) = NoThread THEN "invalid"
    ELSE Outcome(ThreadWakeupCallback(K, Head(in_flight).handle))

\* The priorities the callers of the mutex scenario pass.
MutexPriorities == {THREADPRIO_HIGHEST, THREADPRIO_DEFAULT}

\* The mutex scenario: threads are created and callers change priorities and register
\* and remove mutex waiters in any order.
NextMutex ==
    \/ \E p \in MutexPriorities : DoCreate(MaxMutexThreads, p, 0) /\ Quiet
    \/ \E t \in ThreadIds, p \in MutexPriorities : DoSetPriority(t, p) /\ Quiet
    \/ \E o, w \in ThreadIds :
           o # w /\ DoAddMutexWaiter(o, w)
                 /\ Note("AddMutexWaiter", AddMutexWaiterOutcome(o, w))
    \/ \E o, w \in ThreadIds : o # w /\ DoRemoveMutexWaiter(o, w) /\ Quiet

SpecMutex == Init /\ [][NextMutex]_vars

\* The priority inheritance scenario: threads are created and the first is made Ready and
\* moves between the priority queues, the others stay Dormant; callers change and boost
\* priorities, register threads without a lock owner as mutex waiters (also in cycles of
\* lock ownership), remove waiters from their owners and from other threads, and
\* recompute a thread's priority, in any order.
NextInherit ==
    \/ DoCreate(MaxInheritThreads, THREADPRIO_DEFAULT, 0) /\ Note("call", "ok")
    \/ status[1] = "Dormant" /\ DoResumeFromWait(1) /\ Note("call", "ok")
    \/ \E t \in ThreadIds, p \in MutexPriorities : DoSetPriority(t, p) /\ Note("call", "ok")
    \/ \E t \in ThreadIds : DoBoostPriority(t, THREADPRIO_HIGHEST) /\ Note("call", "ok")
    \/ \E o, w \in ThreadIds :
           o # w /\ lock_owner[w] = NoThread /\ DoAddMutexWaiter(o, w) /\ Note("call", "ok")
    \/ \E o, w \in ThreadIds :
           o # w /\ DoRemoveMutexWaiter(o, w)
                 /\ Note("RemoveMutexWaiter", RemoveMutexWaiterOutcome(o, w))
    \/ \E t \in ThreadIds : DoUpdatePriority(t) /\ Note("UpdatePriority", "ok")

SpecInherit == Init /\ [][NextInherit]_vars

\* The durations in nanoseconds that the callers of WakeAfterDelay pass: wait forever,
\* another negative value, zero and positive values.
Delays == {-2, -1, 0, 1, 2}

\* The wakeup delay scenario: threads are created, started and stopped, callers arm the
\* wakeup timer of any thread with any duration, virtual time advances and the timer runs
\* the callbacks of the due events.
NextDelay ==
    \/ DoCreate(MaxDelayThreads, THREADPRIO_DEFAULT, 0) /\ Quiet
    \/ \E t \in ThreadIds : status[t] = "Dormant" /\ DoResumeFromWait(t) /\ Quiet
    \/ \E t \in ThreadIds, ns \in Delays :
           /\ DoWakeAfterDelay(MaxDelayEvents, t, ns)
           /\ Note("WakeAfterDelay", IF ns = -1 THEN "forever" ELSE "scheduled")
    \/ Advance /\ Quiet
    \/ \E i \in 1..MaxDelayEvents :
           FireEvent(i) /\ Note("ThreadWakeupCallback", FireEventOutcome(i))
    \/ \E t \in ThreadIds : status[t] # "Dead" /\ DoStop(t) /\ Note("Stop", "ok")

SpecDelay == Init /\ [][NextDelay]_vars

\* The wakeup scenario: threads run on core 0, block on a condition variable with a
\* timeout, are registered and removed as mutex waiters, woken by their timers and stopped.
NextWake ==
    \/ DoCreate(MaxWakeThreads, THREADPRIO_DEFAULT, 0) /\ Quiet
    \/ \E o, w \in ThreadIds : DoAddMutexWaiter(o, w) /\ Quiet
    \/ \E o, w \in ThreadIds : DoRemoveMutexWaiter(o, w) /\ Quiet
    \/ \E t \in ThreadIds : status[t] = "Dormant" /\ DoResumeFromWait(t) /\ Quiet
    \/ DoReschedule(0) /\ Quiet
    \/ DoWaitProcessWideKeyAtomic(0, 0) /\ Quiet
    \/ \E i \in 1..MaxWakeThreads :
           FireEvent(i) /\ Note("ThreadWakeupCallback", FireEventOutcome(i))
    \/ \E t \in ThreadIds : status[t] # "Dead" /\ DoStop(t) /\ Note("Stop", "ok")

SpecWake == Init /\ [][NextWake]_vars

\* The boost scenario: threads run on core 0, block on a condition variable with a
\* timeout and are registered as mutex waiters while callers set and boost priorities.
NextBoost ==
    \/ DoCreate(MaxBoostThreads, THREADPRIO_DEFAULT, 0) /\ Quiet
    \/ \E t \in ThreadIds, p \in {THREADPRIO_HIGHEST, THREADPRIO_DEFAULT} :
           DoSetPriority(t, p) /\ Quiet
    \/ \E t \in ThreadIds, p \in {THREADPRIO_HIGHEST, THREADPRIO_LOWEST} :
           DoBoostPriority(t, p) /\ Quiet
    \/ \E o, w \in ThreadIds :
           o # w /\ status[w] = "WaitMutex" /\ DoAddMutexWaiter(o, w) /\ Quiet
    \/ \E o, w \in ThreadIds :
           o # w /\ lock_owner[w] = o /\ DoRemoveMutexWaiter(o, w) /\ Quiet
    \/ \E t \in ThreadIds : status[t] = "Dormant" /\ DoResumeFromWait(t) /\ Quiet
    \/ DoReschedule(0) /\ Quiet
    \/ DoWaitProcessWideKeyAtomic(0, 0) /\ Quiet
    \/ \E i \in 1..MaxBoostThreads : FireEvent(i) /\ Quiet

SpecBoost == Init /\ [][NextBoost]_vars

\* The (ideal core, affinity mask) pairs that callers of ChangeCore pass.
CoreRequests == {<<-1, 15>>, <<1, 15>>, <<0, 1>>}

\* A slice of core c in which its running thread calls SleepThread without a timeout
\* and the core's loop then reschedules.
RunSleepThread(c) ==
    /\ ~crashed
    /\ current_thread[c] # NoThread /\ status[current_thread[c]] = "Running"
    /\ Commit(Reschedule(SleepThread(K, c, -1), c))

\* The thread created last.
Newest == next_thread_id - 1

\* The placement scenario: threads are created on core 0 one after the other; the
\* newest thread is given new cores and masks, started and woken (also more than once),
\* the cores dispatch their ready threads and the thread running on core 0 goes to sleep.
NextPlace ==
    \/ /\ \A t \in ThreadIds : status[t] # "Dormant"
       /\ DoCreate(MaxPlaceThreads, THREADPRIO_DEFAULT, 0) /\ Quiet
    \/ \E t \in ThreadIds :
           /\ t = Newest /\ status[t] # "Running"
           /\ DoResumeFromWait(t) /\ Note("ResumeFromWait", ResumeFromWaitOutcome(t))
    \/ \E t \in ThreadIds, r \in CoreRequests :
           /\ t = Newest /\ status[t] \in {"Dormant", "Ready"}
           /\ DoChangeCore(t, r[1], r[2])
           /\ Note("ChangeCore", ChangeCoreOutcome(t, r[1], r[2]))
    \/ \E c \in Cores : DoReschedule(c) /\ Quiet
    \/ RunSleepThread(0) /\ Quiet

SpecPlace == Init /\ [][NextPlace]_vars

\* The sequences of one or two distinct thread objects a caller waits on.
WaitSets ==
    {<<o>> : o \in ThreadIds} \cup {<<1, 2>>, <<2, 1>>}

\* The termination scenario, in either build: threads run on core 0, wait for other
\* threads to end, are stopped in any state and more than once, and a signaller resumes
\* a thread that already runs or was stopped.
NextStop ==
    \/ DoCreate(MaxStopThreads, THREADPRIO_DEFAULT, 0) /\ Quiet
    \/ \E t \in ThreadIds : status[t] = "Dormant" /\ DoResumeFromWait(t) /\ Quiet
    \/ DoReschedule(0) /\ Quiet
    \/ \E objects \in WaitSets : DoWaitSynchronization(0, objects, -1) /\ Quiet
    \/ \E t \in ThreadIds : DoStop(t) /\ Note("Stop", status[t])
    \/ \E t \in ThreadIds :
           /\ status[t] \in {"Running", "Dead"}
           /\ DoResumeFromWait(t) /\ Note("ResumeFromWait", ResumeFromWaitOutcome(t))

SpecStop == InitAnyBuild /\ [][NextStop]_vars

\* The timeouts in nanoseconds that the callers of the timer scenario pass.
Timeouts == {1, 2}

\* The timer scenario: threads run on core 0, sleep or wait on a condition variable with
\* a timeout, are signalled early and stopped, while virtual time advances and the timer
\* takes due events off its queue and runs their callbacks under the kernel lock.
NextTimer ==
    \/ DoCreate(MaxTimerThreads, THREADPRIO_DEFAULT, 0) /\ Quiet
    \/ \E t \in ThreadIds : status[t] = "Dormant" /\ DoResumeFromWait(t) /\ Quiet
    \/ DoReschedule(0) /\ Quiet
    \/ \E ns \in Timeouts : DoSleepThread(0, ns) /\ Note("SleepThread", "ok")
    \/ DoWaitProcessWideKeyAtomic(0, 1) /\ Quiet
    \/ \E t \in ThreadIds : DoSignalProcessWideKey(t) /\ Note("SignalProcessWideKey", "ok")
    \/ Advance /\ Quiet
    \/ \E i \in 1..MaxTimerThreads : DoTakeEvent(i) /\ Quiet
    \/ RunCallback /\ Note("ThreadWakeupCallback", RunCallbackOutcome)
    \/ \E t \in ThreadIds : status[t] # "Dead" /\ DoStop(t) /\ Note("Stop", "ok")

SpecTimer == Init /\ [][NextTimer]_vars

\* What a wakeup callback returns: true ("resume") or false ("veto").
Hooks == {"resume", "veto"}

\* The sequences of one or two distinct thread objects a waiter of SpecSynch waits on.
SynchWaitSets ==
    {<<o>> : o \in ThreadIds} \cup {<<2, 3>>, <<3, 2>>}

\* The threads of SpecSynch that are started; the others only end.
Waiters == {1, 2}

\* The synchronization wait scenario: threads 1 and 2 run on core 0, sleep, and wait for
\* one or two other threads to end, with a timeout and with a wakeup callback that
\* resumes or vetoes; threads are stopped, virtual time advances and the timer takes due events off
\* its queue and runs their callbacks under the kernel lock.
NextSynch ==
    \/ DoCreate(MaxSynchThreads, THREADPRIO_DEFAULT, 0) /\ Quiet
    \/ \E t \in Waiters : status[t] = "Dormant" /\ DoResumeFromWait(t) /\ Quiet
    \/ DoReschedule(0) /\ Quiet
    \/ \E objects \in SynchWaitSets, callback \in Hooks :
           /\ DoWaitSynchronizationHook(0, objects, 1, callback)
           /\ Note("WaitSynchronization", callback)
    \/ DoSleepThread(0, 1) /\ Note("SleepThread", "ok")
    \/ Advance /\ Quiet
    \/ \E i \in Waiters : DoTakeEvent(i) /\ Quiet
    \/ RunCallback /\ Note("ThreadWakeupCallback", RunCallbackOutcome)
    \/ \E t \in ThreadIds : status[t] # "Dead" /\ DoStop(t) /\ Note("Stop", "ok")

SpecSynch == Init /\ [][NextSynch]_vars

\* The kernel lock scenario: the core's host thread takes the kernel lock for each kernel
\* operation (threads are created, threads 1 and 2 are started, threads are dispatched,
\* wait with a timeout for another thread with a resuming or vetoing callback, sleep and
\* are stopped) while virtual time advances and the timer's host thread takes due events
\* and runs ThreadWakeupCallback statement by statement.
NextLock ==
    \/ DoCoreLock /\ Note("lock", "core")
    \/ /\ next_thread_id <= MaxLockThreads
       /\ DoCoreCall(Create(K, THREADPRIO_DEFAULT, 0, TRUE)) /\ Note("kernel", "call")
    \/ \E t \in Waiters :
           /\ status[t] = "Dormant"
           /\ DoCoreCall(ResumeFromWait(K, t)) /\ Note("kernel", "call")
    \/ /\ reschedule_pending[0]
       /\ DoCoreCall(Reschedule(K, 0)) /\ Note("kernel", "call")
    \/ \E o \in ThreadIds, callback \in Hooks :
           /\ current_thread[0] # NoThread /\ status[current_thread[0]] = "Running"
           /\ Created(o) /\ o # current_thread[0]
           /\ DoCoreCall(WaitSynchronizationHook(K, 0, <<o>>, 1, callback))
           /\ Note("kernel", "call")
    \/ /\ current_thread[0] # NoThread /\ status[current_thread[0]] = "Running"
       /\ DoCoreCall(SleepThread(K, 0, 1)) /\ Note("kernel", "call")
    \/ \E t \in ThreadIds :
           /\ Created(t) /\ status[t] # "Dead"
           /\ DoCoreCall(Stop(K, t)) /\ Note("kernel", "call")
    \/ Advance /\ Note("Advance", "tick")
    \/ \E i \in 1..MaxLockThreads : DoTakeEvent(i) /\ Note("Advance", "tick")
    \/ DoCallbackEnter /\ Note("ThreadWakeupCallback", "lock")
    \/ DoCallbackStep /\ Note("ThreadWakeupCallback", "step")

SpecLock == Init /\ [][NextLock]_vars

\* The wait timeout scenario: threads of two priorities are created, threads 1 and 2
\* run on core 0 and block with a zero timeout on a condition variable or on an arbitration address; a signaller that
\* finds the mutex of a condition variable waiter held registers the waiter with the
\* mutex's owner; the timer fires the due events.
NextTimeout ==
    \/ \E p \in MutexPriorities : DoCreate(MaxTimeoutThreads, p, 0) /\ Note("call", "ok")
    \/ \E t \in Waiters :
           status[t] = "Dormant" /\ DoResumeFromWait(t) /\ Note("call", "ok")
    \/ DoReschedule(0) /\ Note("call", "ok")
    \/ DoWaitProcessWideKeyAtomic(0, 0) /\ Note("call", "ok")
    \/ DoWaitForAddress(0, 0) /\ Note("call", "ok")
    \/ \E o, w \in ThreadIds :
           /\ o # w /\ status[w] = "WaitMutex" /\ lock_owner[w] = NoThread
           /\ DoAddMutexWaiter(o, w) /\ Note("call", "ok")
    \/ \E i \in 1..MaxTimeoutThreads :
           FireEvent(i) /\ Note("ThreadWakeupCallback", TimeoutOutcome(i))

SpecTimeout == Init /\ [][NextTimeout]_vars

\* SetupMainThread: the main thread is created on core 0 and woken.
SetupMainThread(k, priority) ==
    ResumeFromWait(Create(k, priority, 0, TRUE), k.next_thread_id)

DoSetupMainThread(priority) ==
    /\ ~crashed
    /\ next_thread_id = 1
    /\ Commit(SetupMainThread(K, priority))

\* The thread start scenario: the main thread is set up, further threads are created on
\* any core, dormant threads are given new cores and masks and are started, and the
\* cores dispatch their ready threads.
NextStart ==
    \/ \E p \in MutexPriorities : DoSetupMainThread(p) /\ Note("SetupMainThread", "ok")
    \/ \E p \in MutexPriorities, core \in Cores :
           /\ next_thread_id > 1
           /\ DoCreate(MaxStartThreads, p, core) /\ Note("Create", "ok")
    \/ \E t \in ThreadIds, r \in CoreRequests :
           /\ status[t] = "Dormant"
           /\ DoChangeCore(t, r[1], r[2]) /\ Note("ChangeCore", "ok")
    \/ \E t \in ThreadIds :
           /\ status[t] = "Dormant"
           /\ DoResumeFromWait(t) /\ Note("ResumeFromWait", "Dormant")
    \/ \E c \in Cores : DoReschedule(c) /\ Note("Reschedule", "ok")

SpecStart == Init /\ [][NextStart]_vars

\* The priorities and processor ids that callers of Thread::Create pass.
CreatePriorities == {THREADPRIO_HIGHEST, THREADPRIO_LOWEST, THREADPRIO_LOWEST + 1}

CreateCores == {-1, 0, NUM_CPU_CORES - 1, NUM_CPU_CORES}

\* The creation scenario: Thread::Create is called with valid and invalid arguments and
\* threads that have not started are stopped.
NextCreate ==
    \/ \E priority \in CreatePriorities, core \in CreateCores, entry_valid \in BOOLEAN,
          outcome \in UndefinedOutcomes :
           /\ DoCreateWith(MaxCreateThreads, priority, core, entry_valid, outcome)
           /\ Note("Create", CreateOutcome(priority, core, entry_valid, outcome))
    \/ \E t \in ThreadIds : status[t] = "Dormant" /\ DoStop(t) /\ Quiet

SpecCreate == Init /\ [][NextCreate]_vars

\* ------------------------------------------------------------------ claims
\* The members of a sequence.
Range(seq) == {seq[i] : i \in 1..Len(seq)}

\* The most urgent (numerically least) of a thread's nominal priority and the nominal
\* priorities of the threads in its wait_mutex_threads.
MostUrgentNominal(t) ==
    LET ps == {nominal_priority[t]} \cup {nominal_priority[w] : w \in Range(wait_mutex_threads[t])}
    IN CHOOSE p \in ps : \A q \in ps : p <= q

RECURSIVE UpdatePriorityWalk_NoEarlyReturn(_, _, _)
\* The walk of an UpdatePriority that goes on to the lock owner also when the thread's
\* priority comes out as it was.
UpdatePriorityWalk_NoEarlyReturn(k, t, fuel) ==
    LET new_priority == NewPriority(k, t)
        k1 == SetThreadPriority(k, k.scheduler[t], t, new_priority)
        k2 == [k1 EXCEPT !.current_priority[t] = new_priority]
        rest == UpdatePriorityWalk_NoEarlyReturn(k2, k2.lock_owner[t], fuel - 1)
    IN IF fuel = 0 THEN [k |-> k, visits |-> <<>>, cut |-> TRUE]
       ELSE IF k2.lock_owner[t] # NoThread
       THEN [rest EXCEPT !.visits = <<t>> \o @]
       ELSE [k |-> k2, visits |-> <<t>>, cut |-> FALSE]

RECURSIVE UpdatePriorityWalk(_, _, _)
\* Thread::UpdatePriority call by call: the threads on which it is invoked, in order,
\* and the state it leaves; the walk is cut off after `fuel` invocations.
UpdatePriorityWalk(k, t, fuel) ==
    LET new_priority == NewPriority(k, t)
        k1 == SetThreadPriority(k, k.scheduler[t], t, new_priority)
        k2 == [k1 EXCEPT !.current_priority[t] = new_priority]
        rest == UpdatePriorityWalk(k2, k2.lock_owner[t], fuel - 1)
    IN IF fuel = 0 THEN [k |-> k, visits |-> <<>>, cut |-> TRUE]
       ELSE IF new_priority = k.current_priority[t]
       THEN [k |-> k, visits |-> <<t>>, cut |-> FALSE]
       ELSE IF k2.lock_owner[t] # NoThread
       THEN [rest EXCEPT !.visits = <<t>> \o @]
       ELSE [k |-> k2, visits |-> <<t>>, cut |-> FALSE]

\* The states in which SetPriority, AddMutexWaiter, RemoveMutexWaiter or a caller of
\* UpdatePriority itself can start a propagation from the present state, each with the
\* thread it starts on.
Propagations ==
    {<<K, t>> : t \in {t \in ThreadIds : Created(t)}}
        \cup {<<[K EXCEPT !.nominal_priority[t] = p], t>> :
                  t \in {t \in ThreadIds : Created(t)}, p \in MutexPriorities}
        \cup {<<[K EXCEPT !.lock_owner[pair[2]] = pair[1],
                          !.wait_mutex_threads[pair[1]] = Append(@, pair[2])], pair[1]>> :
                  pair \in {pair \in ThreadIds \X ThreadIds :
                                /\ Created(pair[1]) /\ Created(pair[2]) /\ pair[1] # pair[2]
                                /\ lock_owner[pair[2]] = NoThread}}
        \cup {<<[K EXCEPT !.wait_mutex_threads[pair[1]] = RemoveErase(@, pair[2]),
                          !.lock_owner[pair[2]] = NoThread], pair[1]>> :
                  pair \in {pair \in ThreadIds \X ThreadIds :
                                /\ lock_owner[pair[2]] = pair[1]
                                /\ Contains(wait_mutex_threads[pair[1]], pair[2])}}

\* T3 is a mutex waiter of T2 and T2 is a mutex waiter of T1.
Chain(t1, t2, t3) ==
    /\ t1 # t2 /\ t2 # t3 /\ t1 # t3
    /\ lock_owner[t3] = t2 /\ Contains(wait_mutex_threads[t2], t3)
    /\ lock_owner[t2] = t1 /\ Contains(wait_mutex_threads[t1], t2)

\* C1 as stated: in every reachable state every thread's current_priority is
\* numerically at most its nominal_priority, BoostPriority included.
C1_NeverWorseThanNominal ==
    \A t \in ThreadIds : Created(t) => current_priority[t] <= nominal_priority[t]

\* The step is BoostPriority(t, p) with p less urgent than t's nominal priority.
BoostsBelowNominal(t) ==
    \E p \in Priorities :
        /\ p > nominal_priority[t]
        /\ DoBoostPriority(t, p)

\* C1 amended: a thread's current_priority exceeds its nominal_priority only by a
\* BoostPriority call with a less urgent value, and then only for as long as neither of
\* the two priorities changes; Create, SetPriority, AddMutexWaiter, RemoveMutexWaiter and
\* timer wakeups never leave a thread they touch worse than nominal.
C1_WorseOnlyByBoost ==
    [][\A t \in ThreadIds :
           (Created(t)' /\ current_priority'[t] > nominal_priority'[t]) =>
               \/ BoostsBelowNominal(t)
               \/ /\ current_priority[t] > nominal_priority[t]
                  /\ current_priority'[t] = current_priority[t]
                  /\ nominal_priority'[t] = nominal_priority[t]]_vars

\* An owner runs at the more urgent priority of a waiter whose timer is pending.
C1_Witness ==
    \E o, w \in ThreadIds :
        /\ lock_owner[w] = o /\ Contains(wait_mutex_threads[o], w)
        /\ current_priority[o] < nominal_priority[o]
        /\ \E i \in 1..Len(events) : HandleGet(K, events[i].handle) = w

\* C2: when T3 waits on T2, T2 waits on T1 and T3's nominal priority is more urgent than
\* both others', T1's current_priority is T3's nominal priority, in either order of
\* registration.
C2_TransitiveInheritance ==
    \A t1, t2, t3 \in ThreadIds :
        (/\ Chain(t1, t2, t3)
         /\ nominal_priority[t3] < nominal_priority[t1]
         /\ nominal_priority[t3] < nominal_priority[t2])
            => current_priority[t1] = nominal_priority[t3]

\* C3: RemoveMutexWaiter of the most urgent waiter leaves the owner at the most urgent
\* nominal priority of itself and its remaining waiters, and along a chain
\* T3 -> T2 -> T1 the removal of T3 from T2 leaves T1 likewise at the most urgent nominal
\* priority of itself and its waiters.
C3_RemoveRestores ==
    [][\A o, w \in ThreadIds :
           (/\ o # w
            /\ lock_owner[w] = o /\ Contains(wait_mutex_threads[o], w)
            /\ \A x \in Range(wait_mutex_threads[o]) : nominal_priority[w] <= nominal_priority[x]
            /\ DoRemoveMutexWaiter(o, w))
               => /\ current_priority'[o] = MostUrgentNominal(o)'
                  /\ \A t1 \in ThreadIds :
                         Chain(t1, o, w) => current_priority'[t1] = MostUrgentNominal(t1)']_vars

\* C4: AddMutexWaiter(owner, waiter) ends in the fatal assertion and changes no
\* lock_owner, no wait_mutex_threads and no priority when the waiter has another lock
\* owner, or is in the owner's list without the owner being its lock owner.
C4_AddRejected ==
    [][\A o, w \in ThreadIds :
           (/\ \/ lock_owner[w] \notin {NoThread, o}
               \/ Contains(wait_mutex_threads[o], w) /\ lock_owner[w] # o
            /\ DoAddMutexWaiter(o, w))
               => /\ crashed'
                  /\ UNCHANGED <<lock_owner, wait_mutex_threads,
                                 nominal_priority, current_priority>>]_vars

\* AddMutexWaiter was rejected for a waiter that has a lock owner.
C4_Witness ==
    /\ crashed
    /\ last = Call("AddMutexWaiter", "assert")
    /\ \E w \in ThreadIds : lock_owner[w] # NoThread

\* C5: AddMutexWaiter(owner, waiter) when the waiter's lock_owner is already the owner
\* changes nothing: the waiter stays exactly once in the owner's list and the owner's
\* current_priority is left as it was, not recomputed.
C5_AddIdempotent ==
    [][\A o, w \in ThreadIds :
           (lock_owner[w] = o /\ DoAddMutexWaiter(o, w))
               => /\ ~crashed'
                  /\ Count(wait_mutex_threads'[o], w) = 1
                  /\ UNCHANGED <<lock_owner, wait_mutex_threads, nominal_priority,
                                 current_priority, ready_queue, reschedule_pending>>]_vars

\* A re-registration was made while an owner's current_priority differed from what a
\* recomputation would give.
C5_Witness ==
    /\ last = Call("AddMutexWaiter", "noop")
    /\ \E o \in ThreadIds :
           /\ wait_mutex_threads[o] # <<>>
           /\ current_priority[o] # MostUrgentNominal(o)

\* C6: every thread is in the wait_mutex_threads of at most one owner and at most once,
\* and w is in o's wait_mutex_threads exactly when w's lock_owner is o.
C6_WaiterListsConsistent ==
    \A w \in ThreadIds :
        /\ \A o \in ThreadIds : Count(wait_mutex_threads[o], w) <= 1
        /\ \A o1, o2 \in ThreadIds :
               (Contains(wait_mutex_threads[o1], w) /\ Contains(wait_mutex_threads[o2], w))
                   => o1 = o2
        /\ \A o \in ThreadIds : Contains(wait_mutex_threads[o], w) <=> lock_owner[w] = o

\* A timer wakeup has run while a stopped thread is still registered as a waiter.
C6_Witness ==
    /\ last = Call("ThreadWakeupCallback", "ok")
    /\ \E o, w \in ThreadIds :
           /\ lock_owner[w] = o /\ Contains(wait_mutex_threads[o], w)
           /\ status[w] = "Dead"

\* The statuses from which ResumeFromWait goes on to place the thread.
Resumable == WaitStatuses \cup {"Dormant"}

\* The cores enabled in the mask whose scheduler has no current thread.
FreeCores(mask) == {c \in Cores : BitSet(mask, c) /\ current_thread[c] = NoThread}

\* The ideal core decides the placement.
IdealOverrides(core) == core # -1 /\ current_thread[core] = NoThread

\* No thread occurs in the ready queues of all cores more than once: every entry is
\* the only one of its thread in its queue, and its queue is the one of the thread's
\* scheduler and current priority.
NoDuplicateReady ==
    \A c \in Cores, p \in Priorities :
        \A i \in 1..Len(ready_queue[c][p]) :
            /\ scheduler[ready_queue[c][p][i]] = c
            /\ current_priority[ready_queue[c][p][i]] = p
            /\ \A j \in 1..Len(ready_queue[c][p]) :
                   ready_queue[c][p][j] = ready_queue[c][p][i] => j = i

\* C7: ResumeFromWait on a Ready thread changes neither status, processor_id, scheduler
\* assignment nor any ready queue or tracking set, and no step that changes the ready
\* queues leaves a thread in them more than once.
C7_ResumeReadyNoop ==
    [][/\ \A t \in ThreadIds :
              (status[t] = "Ready" /\ DoResumeFromWait(t))
                  => /\ ~crashed'
                     /\ UNCHANGED <<status, processor_id, scheduler, ready_queue,
                                    thread_list, current_thread, wakeup_callback>>
       /\ ready_queue' # ready_queue => NoDuplicateReady']_vars

\* A duplicate wakeup was ignored and a Ready thread sits in a ready queue.
C7_Witness ==
    /\ last = Call("ResumeFromWait", "noop")
    /\ \E t \in ThreadIds :
           status[t] = "Ready" /\ Contains(ready_queue[processor_id[t]][current_priority[t]], t)

\* C8: ResumeFromWait of a thread whose ideal core C is not -1 and has no current thread
\* makes C the thread's processor_id, whatever the free-core scan selected.
C8_IdealCoreOverrides ==
    [][\A t \in ThreadIds :
           (/\ status[t] \in Resumable
            /\ IdealOverrides(ideal_core[t])
            /\ DoResumeFromWait(t))
               => /\ ~crashed'
                  /\ status'[t] = "Ready"
                  /\ processor_id'[t] = ideal_core[t]
                  /\ scheduler'[t] = ideal_core[t]
                  /\ Contains(thread_list'[ideal_core[t]], t)
                  /\ Contains(ready_queue'[ideal_core[t]][current_priority[t]], t)]_vars

\* A thread was resumed onto its idle ideal core although the scan of its mask selects
\* another core.
C8_Witness ==
    /\ last = Call("ResumeFromWait", "ideal")
    /\ \E t \in ThreadIds :
           /\ status[t] = "Ready"
           /\ ideal_core[t] # -1 /\ processor_id[t] = ideal_core[t]
           /\ current_thread[ideal_core[t]] = NoThread
           /\ FreeCores(affinity_mask[t]) # {}
           /\ \E c \in FreeCores(affinity_mask[t]) : c < ideal_core[t]

\* C9: without an ideal-core override ResumeFromWait places the thread on the
\* lowest-indexed core that is enabled in affinity_mask and has no current thread; with
\* affinity_mask 0b1111, ideal_core -1, cores 0 to 2 running a thread and core 3 idle
\* that core is core 3.
C9_LowestFreeCore ==
    [][\A t \in ThreadIds :
           (/\ status[t] \in Resumable
            /\ ~IdealOverrides(ideal_core[t])
            /\ FreeCores(affinity_mask[t]) # {}
            /\ DoResumeFromWait(t))
               => /\ ~crashed'
                  /\ processor_id'[t] \in FreeCores(affinity_mask[t])
                  /\ \A c \in FreeCores(affinity_mask[t]) : processor_id'[t] <= c
                  /\ (/\ affinity_mask[t] = 15 /\ ideal_core[t] = -1
                      /\ \A c \in {0, 1, 2} : current_thread[c] # NoThread
                      /\ current_thread[3] = NoThread) => processor_id'[t] = 3]_vars

\* A thread with mask 0b1111 and no ideal core was resumed onto core 3 while cores 0 to
\* 2 run a thread.
C9_Witness ==
    /\ last = Call("ResumeFromWait", "scan")
    /\ \A c \in {0, 1, 2} : current_thread[c] # NoThread
    /\ current_thread[3] = NoThread
    /\ \E t \in ThreadIds :
           /\ status[t] = "Ready" /\ affinity_mask[t] = 15 /\ ideal_core[t] = -1
           /\ processor_id[t] = 3 /\ Contains(ready_queue[3][current_priority[t]], t)

\* C10: when every core enabled in affinity_mask has a current thread and the ideal
\* core gives no override, the placement of ResumeFromWait and of ChangeCore keeps the
\* thread's processor_id and scheduler and moves it between no tracking sets.
C10_FallbackKeepsCore ==
    [][\A t \in ThreadIds :
           (\/ /\ status[t] \in Resumable
               /\ FreeCores(affinity_mask[t]) = {}
               /\ ~IdealOverrides(ideal_core[t])
               /\ DoResumeFromWait(t)
            \/ /\ status[t] = "Ready"
               /\ \E r \in CoreRequests :
                      /\ FreeCores(r[2]) = {}
                      /\ ~IdealOverrides(r[1])
                      /\ DoChangeCore(t, r[1], r[2]))
               => /\ ~crashed'
                  /\ processor_id'[t] = processor_id[t]
                  /\ scheduler'[t] = scheduler[t]
                  /\ thread_list' = thread_list]_vars

\* A wakeup fell back to the previous core, and a Ready thread stays on a core outside
\* its mask because every enabled core and its ideal core run a thread.
C10_Witness ==
    /\ last = Call("ResumeFromWait", "fallback")
    /\ \E t \in ThreadIds :
           /\ status[t] = "Ready"
           /\ FreeCores(affinity_mask[t]) = {}
           /\ ~IdealOverrides(ideal_core[t])
           /\ ~BitSet(affinity_mask[t], processor_id[t])

\* What a placement decides: the thread's core and scheduler, the tracking sets, the
\* ready queues and the reschedule requests.
SamePlacement(k) ==
    /\ processor_id' = k.processor_id
    /\ scheduler' = k.scheduler
    /\ thread_list' = k.thread_list
    /\ ready_queue' = k.ready_queue
    /\ reschedule_pending' = k.reschedule_pending
    /\ crashed' = k.crashed

\* C11: a wakeup by ResumeFromWait does to the thread's processor_id, the tracking sets,
\* the ready queues and the reschedule requests what ChangeCore does for a Ready thread
\* with the same affinity_mask, ideal_core, processor_id and running threads, and
\* ChangeCore of a Ready thread does what ResumeFromWait does for a waiting thread with
\* the mask and ideal core that ChangeCore was given.
C11_SamePlacement ==
    [][\A t \in ThreadIds :
           /\ (status[t] \in Resumable /\ wait_objects[t] = <<>> /\ DoResumeFromWait(t))
                  => SamePlacement(ChangeCore([K EXCEPT !.status[t] = "Ready"],
                                              t, ideal_core[t], affinity_mask[t]))
           /\ \A r \in CoreRequests :
                  (status[t] = "Ready" /\ DoChangeCore(t, r[1], r[2]))
                      => SamePlacement(ResumeFromWait(
                             [K EXCEPT !.status[t] = "WaitSleep", !.ideal_core[t] = r[1],
                                       !.affinity_mask[t] = r[2]], t))]_vars

\* ChangeCore has moved a Ready thread to another core, where it is tracked and queued.
C11_Witness ==
    /\ last \in {Call("ChangeCore", "ideal"), Call("ChangeCore", "scan")}
    /\ \E t \in ThreadIds :
           /\ status[t] = "Ready" /\ processor_id[t] # 0
           /\ Contains(thread_list[processor_id[t]], t)
           /\ Contains(ready_queue[processor_id[t]][current_priority[t]], t)
           /\ reschedule_pending[processor_id[t]]

C13_SecondStopNoop ==
    [][\A t \in ThreadIds :
           (status[t] = "Dead" /\ last'.op = "Stop" /\ DoStop(t))
               => /\ UNCHANGED <<ready_queue, events, tls_slots>>
                  /\ \A u \in ThreadIds :
                         (Created(u) /\ status[u] # "Dead")
                             => (tls_address[u] % PAGE_SIZE) \div TLS_ENTRY_SIZE
                                    \in tls_slots'[(tls_address[u] \div PAGE_SIZE) + 1]]_vars

\* C14: a Dead thread has no wait objects, is in no object's waiter list and in no ready
\* queue of any core.
C14_DeadIsDeregistered ==
    \A t \in ThreadIds :
        status[t] = "Dead" =>
            /\ wait_objects[t] = <<>>
            /\ \A o \in Objects : ~Contains(waiting_threads[o], t)
            /\ \A c \in Cores, p \in Priorities : ~Contains(ready_queue[c][p], t)

\* A thread was stopped while it waited for a thread that is still alive, with another
\* thread Dead that was stopped before.
C14_Witness ==
    /\ last = Call("Stop", "WaitSynchAny")
    /\ \E t, u \in ThreadIds : t # u /\ status[t] = "Dead" /\ status[u] = "Dead"
    /\ \E o \in ThreadIds : Created(o) /\ status[o] # "Dead"

\* C20: ResumeFromWait on a Dead or Running thread ends in the fatal assertion and
\* leaves the statuses, the processor ids and the ready queues unchanged, and no step
\* takes a Dead thread to another status.
C20_ResumeDeadRunningRejected ==
    [][/\ \A t \in ThreadIds :
              (/\ status[t] \in {"Dead", "Running"}
               /\ last'.op = "ResumeFromWait"
               /\ DoResumeFromWait(t))
                  => /\ crashed'
                     /\ UNCHANGED <<status, processor_id, ready_queue>>
       /\ \A t \in ThreadIds : status[t] = "Dead" => status'[t] = "Dead"]_vars

\* The timer events in the queue that carry thread t's callback handle.
PendingEvents(evs, handle) == {i \in 1..Len(evs) : evs[i].handle = handle}

\* C15: SleepThread with a timeout N registers one wakeup at the time of the call plus
\* nsToCycles(N), and the thread leaves WaitSleep for Ready only when virtual time has
\* reached that deadline: when it becomes Ready the wakeup its sleep registered is not
\* still pending with a deadline in the future, whatever timers earlier waits registered.
C15_SleepNotEarly ==
    [][/\ \A ns \in Timeouts :
              (last'.op = "SleepThread" /\ DoSleepThread(0, ns))
                  => /\ status'[current_thread[0]] = "WaitSleep"
                     /\ \E i \in 1..Len(events') :
                            events'[i] = [time |-> ticks + nsToCycles(ns),
                                          handle |-> callback_handle[current_thread[0]]]
       /\ \A t \in ThreadIds :
              (status[t] = "WaitSleep" /\ status'[t] = "Ready")
                  => \A i \in PendingEvents(events, callback_handle[t]) :
                         events[i].time <= ticks]_vars

\* C16: the timer queue never holds more than one event for a thread's callback handle,
\* and a thread's event is gone from the queue after Stop and after a signal has resumed
\* the thread before its deadline.
C16_OneTimerCancelled ==
    [][/\ \A t \in ThreadIds :
              Cardinality(PendingEvents(events', callback_handle'[t])) <= 1
       /\ \A t \in ThreadIds :
              (last'.op = "Stop" /\ DoStop(t))
                  => PendingEvents(events', callback_handle[t]) = {}
       /\ \A t \in ThreadIds :
              (last'.op = "SignalProcessWideKey" /\ DoSignalProcessWideKey(t))
                  => PendingEvents(events', callback_handle[t]) = {}]_vars

\* C17: a wakeup callback whose handle resolves to no thread, because the thread was
\* stopped after the timer took the event, ends without a fatal assertion and changes
\* no thread, no scheduler and no wait object.
C17_StaleCallbackHarmless ==
    [][(/\ in_flight # <<>>
        /\ HandleGet(K, Head(in_flight).handle) = NoThread
        /\ last'.op = "ThreadWakeupCallback"
        /\ RunCallback)
           => /\ ~crashed'
              /\ UNCHANGED <<status, nominal_priority, current_priority, lock_owner,
                             wait_mutex_threads, processor_id, scheduler, wait_objects,
                             wakeup_callback, mutex_wait_address, condvar_wait_address,
                             wait_handle, arb_wait_address, callback_handle,
                             waiting_threads, thread_list, ready_queue, current_thread,
                             reschedule_pending, handle_objects, events>>]_vars

\* The callback of the stopped thread 1 ran while thread 2, created into the handle slot
\* that thread 1 left, is waiting with its own timer.
C17_Witness ==
    /\ last = Call("ThreadWakeupCallback", "invalid")
    /\ status[1] = "Dead"
    /\ status[2] \in WaitStatuses
    /\ HandleSlot(callback_handle[2]) = 0
    /\ PendingEvents(events, callback_handle[2]) # {}

\* C18: Create with a priority out of range, a processor id that is no core, or an
\* invalid entry point returns an error result code and creates no thread: no thread id
\* is consumed, no callback handle allocated, no tracking set changed and no TLS slot
\* marked used.
C18_CreateRejectsInvalid ==
    [][\A priority \in CreatePriorities, core \in CreateCores, entry_valid \in BOOLEAN,
          outcome \in UndefinedOutcomes :
           (/\ last'.op = "Create"
            /\ priority > THREADPRIO_LOWEST \/ core \notin Cores \/ ~entry_valid
            /\ DoCreateWith(MaxCreateThreads, priority, core, entry_valid, outcome))
               => /\ last'.res # "RESULT_SUCCESS"
                  /\ ~crashed'
                  /\ UNCHANGED <<next_thread_id, status, handle_objects, callback_handle,
                                 thread_list, tls_slots>>]_vars

\* C19: Create returns an error result code for every processor id that is not the
\* index of a core, negative ids included, so that every created thread has a
\* processor_id in 0..NUM_CPU_CORES-1 and an affinity_mask with exactly that core's bit.
C19_CreateRejectsEveryNonCore ==
    [][/\ \A priority \in CreatePriorities, core \in CreateCores \ Cores,
            entry_valid \in BOOLEAN, outcome \in UndefinedOutcomes :
              (/\ last'.op = "Create"
               /\ DoCreateWith(MaxCreateThreads, priority, core, entry_valid, outcome))
                  => last'.res \in {"ERR_OUT_OF_RANGE", "ERR_OUT_OF_RANGE_KERNEL",
                                    "ResultCode(-1)"}
       /\ \A t \in ThreadIds :
              Created(t)' => /\ processor_id'[t] \in Cores
                             /\ affinity_mask'[t] = Bit(processor_id'[t])]_vars

\* C21: during one wait a thread's wakeup_callback is never invoked a second time, also
\* not after it vetoed the resume, and a wait that a timed or signalled wakeup resolves
\* (the waiting thread becomes Ready) has had exactly one invocation.
C21_CallbackOncePerWait ==
    [][\A t \in ThreadIds :
           /\ Len(invocations'[t]) <= 1
           /\ (/\ status[t] \in SynchStatuses /\ status'[t] = "Ready"
               /\ last'.op \in {"ThreadWakeupCallback", "Stop"})
                  => Len(invocations'[t]) = 1]_vars

\* C22: in every reachable state a thread is in a wait object's waiter list if and only
\* if the object is in the thread's wait_objects; Stop and the timeout path of
\* ThreadWakeupCallback keep it so.
C22_WaitersMatchWaitObjects ==
    \A t \in ThreadIds, o \in Objects :
        Contains(waiting_threads[o], t) <=> Contains(wait_objects[t], o)

\* A timer has just deregistered thread 1, whose callback vetoed, while thread 2 is
\* still registered with the objects it waits on.
C22_Witness ==
    /\ last = Call("ThreadWakeupCallback", "ok")
    /\ status[1] = "WaitSynchAny" /\ wait_objects[1] = <<>>
    /\ Len(invocations[1]) = 1 /\ invocations[1][1].reason = "Timeout"
    /\ status[2] = "WaitSynchAny" /\ wait_objects[2] # <<>>

\* The thread to which the callback that is about to run resolves its handle.
CallbackThread == HandleGet(K, Head(in_flight).handle)

\* The step is the run of the timer callback that was called.
CallbackRuns ==
    /\ in_flight # <<>>
    /\ last'.op = "ThreadWakeupCallback"
    /\ RunCallback

\* The thread is in a ready queue of some core.
InReadyQueue(queues, t) ==
    \E c \in Cores, p \in Priorities : Contains(queues[c][p], t)

\* C27: whenever ThreadWakeupCallback calls ResumeFromWait, the thread's wait_objects are
\* empty at the call, whatever status the thread has when its timer fires.
C27_ResumeAfterDeregistration ==
    [][(/\ CallbackRuns
        /\ CallbackThread # NoThread
        /\ ~WakeupBeforeResume(K, CallbackThread).crashed
        /\ WakeupResumes(K, CallbackThread))
           => WakeupBeforeResume(K, CallbackThread).wait_objects[CallbackThread] = <<>>]_vars

\* The timer of thread 1, which waited with a resuming callback for threads that have
\* not ended, fired and thread 1 was resumed.
C27_Witness ==
    /\ last = Call("ThreadWakeupCallback", "ok")
    /\ status[1] = "Ready" /\ wait_objects[1] = <<>>
    /\ invocations[1] = <<[reason |-> "Timeout", registered |-> FALSE]>>
    /\ status[2] \notin {"None", "Dead"} /\ status[3] \notin {"None", "Dead"}

C30_VetoKeepsWaiting ==
    [][(/\ CallbackRuns
        /\ CallbackThread # NoThread
        /\ status[CallbackThread] \in WaitStatuses)
           => IF /\ status[CallbackThread] \in SynchStatuses
                 /\ wakeup_callback[CallbackThread] = "veto"
              THEN /\ status'[CallbackThread] = status[CallbackThread]
                   /\ ~InReadyQueue(ready_queue', CallbackThread)
                   /\ processor_id'[CallbackThread] = processor_id[CallbackThread]
                   /\ wait_objects'[CallbackThread] = <<>>
              ELSE status'[CallbackThread] = "Ready"]_vars

\* The timer of thread 2 fired and its callback vetoed: thread 2 still waits and is in
\* no ready queue.
C30_Witness ==
    /\ last = Call("ThreadWakeupCallback", "ok")
    /\ status[2] = "WaitSynchAny" /\ wakeup_callback[2] = "veto"
    /\ wait_objects[2] = <<>>
    /\ invocations[2] = <<[reason |-> "Timeout", registered |-> FALSE]>>
    /\ ~InReadyQueue(ready_queue, 2)

\* C28: a thread that is not Dead is a wait object that makes its waiters wait; Stop marks
\* the thread Dead before it wakes the threads waiting on it, so every such waiter finds
\* the stopped thread available: it is taken off the thread's waiter list, its callback is
\* called once with reason Signal after it was deregistered, and it becomes Ready.
C28_DeadBeforeJoinersWake ==
    [][\A t \in ThreadIds :
           (status[t] # "Dead" /\ last'.op = "Stop" /\ DoStop(t))
               => /\ ShouldWait(K, t)
                  /\ status'[t] = "Dead"
                  /\ \A w \in ThreadIds :
                         Contains(waiting_threads[t], w)
                             => /\ ~Contains(waiting_threads'[t], w)
                                /\ wait_objects'[w] = <<>>
                                /\ status'[w] = "Ready"
                                /\ invocations'[w]
                                       = <<[reason |-> "Signal", registered |-> FALSE]>>]_vars

\* A thread that was not Dead was stopped and two threads that waited for it were woken.
C28_Witness ==
    /\ last.op = "Stop" /\ last.res # "Dead"
    /\ \E t, w1, w2 \in ThreadIds :
           /\ w1 # w2 /\ status[t] = "Dead"
           /\ \A w \in {w1, w2} : status[w] = "Ready" /\ invocations[w] # <<>>

\* C25: on return from UpdatePriority(t) the current priority of t is the most urgent of
\* its nominal priority and the nominal priorities of its mutex waiters; when that is the
\* value it had before, the call changes nothing: no ready queue, no pending reschedule
\* and no priority of t's lock owner or of any other thread.
C25_UpdatePriorityPost ==
    [][\A t \in ThreadIds :
           (last'.op = "UpdatePriority" /\ DoUpdatePriority(t))
               => /\ current_priority'[t] = MostUrgentNominal(t)
                  /\ current_priority[t] = MostUrgentNominal(t)
                         => UNCHANGED <<ready_queue, reschedule_pending, current_priority>>]_vars

\* UpdatePriority returned early for a thread whose lock owner had a current priority
\* that a recomputation would change.
C25_Witness ==
    /\ last.op = "UpdatePriority"
    /\ \E t \in ThreadIds :
           /\ lock_owner[t] # NoThread
           /\ current_priority[t] = MostUrgentNominal(t)
           /\ current_priority[lock_owner[t]] # MostUrgentNominal(lock_owner[t])

\* The threads reached from t by following lock_owner links, after at most n links.
RECURSIVE LockOwners(_, _)
LockOwners(t, n) ==
    IF n = 0 \/ lock_owner[t] = NoThread THEN {}
    ELSE {lock_owner[t]} \cup LockOwners(lock_owner[t], n - 1)

\* C26 as stated: RemoveMutexWaiter(owner, waiter) ends in the fatal assertion and
\* changes nothing else when the waiter's lock_owner is not the owner; otherwise the
\* waiter is gone from the owner's list, whose other waiters keep their order, the waiter
\* has no lock owner and the waiter's own current priority is what it was.
C26_RemoveMutexWaiterPost ==
    [][\A o, w \in ThreadIds :
           (o # w /\ last'.op = "RemoveMutexWaiter" /\ DoRemoveMutexWaiter(o, w))
               => IF lock_owner[w] # o
                  THEN K' = [K EXCEPT !.crashed = TRUE]
                  ELSE /\ ~crashed'
                       /\ ~Contains(wait_mutex_threads'[o], w)
                       /\ wait_mutex_threads'[o] = RemoveErase(wait_mutex_threads[o], w)
                       /\ lock_owner'[w] = NoThread
                       /\ current_priority'[w] = current_priority[w]]_vars

\* C26: a RemoveMutexWaiter that ends in the fatal assertion changes nothing else and is
\* not a call with a waiter whose lock_owner is the owner; a RemoveMutexWaiter(owner,
\* waiter) that returns is a call with a waiter whose lock_owner was the owner, and
\* afterwards the waiter is gone from the owner's list, whose other waiters keep their
\* order, and the waiter has no lock owner. The waiter's own current priority is what it
\* was unless the owner's chain of lock owners leads to the waiter, and then it is either
\* what it was or the most urgent of the waiter's nominal priority and the nominal
\* priorities of its own mutex waiters.
C26_RemoveRecomputesInCycle ==
    [][last'.op = "RemoveMutexWaiter" =>
           IF crashed'
           THEN /\ K' = [K EXCEPT !.crashed = TRUE]
                /\ \A o, w \in ThreadIds :
                       (o # w /\ lock_owner[w] = o) => ~DoRemoveMutexWaiter(o, w)
           ELSE \A o, w \in ThreadIds :
                    (o # w /\ DoRemoveMutexWaiter(o, w))
                        => /\ lock_owner[w] = o
                           /\ ~Contains(wait_mutex_threads'[o], w)
                           /\ wait_mutex_threads'[o] = RemoveErase(wait_mutex_threads[o], w)
                           /\ lock_owner'[w] = NoThread
                           /\ IF w \in LockOwners(o, MaxThreads)
                              THEN current_priority'[w]
                                       \in {current_priority[w], MostUrgentNominal(w)'}
                              ELSE current_priority'[w] = current_priority[w]]_vars

\* A waiter was removed from an owner that waits for the waiter in turn, and the removal
\* changed the waiter's current priority.
C26_Witness ==
    /\ last = Call("RemoveMutexWaiter", "waiter recomputed")
    /\ \E o, w \in ThreadIds : o # w /\ lock_owner[o] = w /\ lock_owner[w] = NoThread

\* C24: WakeAfterDelay with the duration -1 schedules no timer event and changes no
\* state; with any other duration, negative ones included, it appends one event for the
\* thread's callback_handle that is due nsToCycles(duration) cycles from the current time
\* and changes nothing else.
C24_WakeAfterDelayFrame ==
    [][\A t \in ThreadIds, ns \in Delays :
           (last'.op = "WakeAfterDelay" /\ DoWakeAfterDelay(MaxDelayEvents, t, ns))
               => IF ns = -1
                  THEN K' = K
                  ELSE K' = [K EXCEPT !.events =
                                 Append(events, [time |-> ticks + nsToCycles(ns),
                                                 handle |-> callback_handle[t]])]]_vars

\* WakeAfterDelay was called with -1 after a call with a positive duration, whose event
\* is pending and not yet due.
C24_Witness ==
    /\ last = Call("WakeAfterDelay", "forever")
    /\ \E i \in 1..Len(events) : events[i].time > ticks /\ events[i].handle # 0

\* The kernel state the claim names: thread statuses, the scheduler's queues and current
\* threads, the wait-object registrations, the priorities, and the wait fields and the
\* callbacks that ThreadWakeupCallback writes.
CallbackKernelState ==
    <<status, ready_queue, current_thread, reschedule_pending, processor_id,
      waiting_threads, wait_objects, nominal_priority, current_priority, lock_owner,
      wait_mutex_threads, mutex_wait_address, condvar_wait_address, wait_handle,
      arb_wait_address, wakeup_callback, invocations>>

\* C23: every step of a timer callback that changes kernel state is taken while the
\* timer's host thread holds the kernel lock; the callback holds the lock from its first
\* statement to its return, and while it is in progress no other step changes the kernel
\* state, so that no kernel operation of a core sees or interleaves with a partly
\* executed ThreadWakeupCallback.
C23_CallbackUnderLock ==
    [][/\ (last'.op = "ThreadWakeupCallback" /\ CallbackKernelState' # CallbackKernelState)
           => hle_lock = "timer"
       /\ callback_pc.at # "idle" => hle_lock = "timer"
       /\ (callback_pc.at # "idle" /\ last'.op # "ThreadWakeupCallback")
           => UNCHANGED CallbackKernelState
       /\ last'.op = "kernel" => callback_pc.at = "idle"]_vars

\* The callback is partly executed: it has deregistered a waiting thread from its wait
\* objects and has not yet resumed it.
C23_Witness ==
    /\ callback_pc.at = "resume" /\ resume
    /\ hle_lock = "timer"
    /\ status[callback_pc.thread] = "WaitSynchAny"
    /\ wait_objects[callback_pc.thread] = <<>>
    /\ invocations[callback_pc.thread] # <<>>

\* C31: when the timer fires for a thread in a mutex or condition variable wait, the
\* thread's mutex_wait_address, condvar_wait_address and wait_handle are cleared, a thread
\* with a lock owner is removed from the owner's wait_mutex_threads and has no lock owner
\* afterwards, and the thread becomes Ready; when it fires for a thread in an arbitration
\* wait, arb_wait_address is cleared and the thread becomes Ready.
C31_TimeoutClearsWait ==
    [][\A i \in 1..MaxTimeoutThreads :
           (last'.op = "ThreadWakeupCallback" /\ FireEvent(i))
               => LET t == HandleGet(K, events[i].handle)
                  IN /\ (t # NoThread /\ status[t] = "WaitMutex")
                         => /\ ~crashed'
                            /\ mutex_wait_address'[t] = 0
                            /\ condvar_wait_address'[t] = 0
                            /\ wait_handle'[t] = 0
                            /\ lock_owner'[t] = NoThread
                            /\ \A o \in ThreadIds : ~Contains(wait_mutex_threads'[o], t)
                            /\ status'[t] = "Ready"
                     /\ (t # NoThread /\ status[t] = "WaitArb")
                         => /\ ~crashed'
                            /\ arb_wait_address'[t] = 0
                            /\ status'[t] = "Ready"]_vars

\* The timer fired for a condition variable waiter that had a lock owner, after it had
\* fired for a thread in an arbitration wait.
C31_Witness ==
    /\ last = Call("ThreadWakeupCallback", "WaitMutex, owned")
    /\ ~crashed
    /\ \E t, u \in ThreadIds :
           /\ t # u /\ status[t] = "Ready" /\ status[u] = "Ready"
           /\ \A x \in {t, u} : arb_wait_address[x] = 0 /\ mutex_wait_address[x] = 0

\* C32: the timeout of a mutex wait releases no inherited priority: when the timer
\* removes a timed-out waiter from its lock owner's waiters, the current priority of the
\* owner and of every thread further up the owner's chain of lock owners is what it was
\* before the callback.
C32_TimeoutKeepsOwnerPriority ==
    [][\A i \in 1..MaxTimeoutThreads :
           (last'.op = "ThreadWakeupCallback" /\ FireEvent(i))
               => LET t == HandleGet(K, events[i].handle)
                  IN (t # NoThread /\ status[t] = "WaitMutex" /\ lock_owner[t] # NoThread)
                         => \A o \in LockOwners(t, MaxThreads) :
                                current_priority'[o] = current_priority[o]]_vars

\* C32 as the code has it: when the timer removes a timed-out waiter from its lock
\* owner's waiters, the owner's current priority is recomputed: after the callback it is
\* the most urgent of the owner's nominal priority and the nominal priorities of the
\* waiters it still has; a timed-out waiter without a lock owner changes no priority.
C32_TimeoutRecomputesOwner ==
    [][\A i \in 1..MaxTimeoutThreads :
           (last'.op = "ThreadWakeupCallback" /\ FireEvent(i))
               => LET t == HandleGet(K, events[i].handle)
                      o == lock_owner[t]
                      ps == {nominal_priority'[o]}
                                \cup {nominal_priority'[w] : w \in Range(wait_mutex_threads'[o])}
                  IN (t # NoThread /\ status[t] = "WaitMutex")
                         => IF o = NoThread
                            THEN UNCHANGED current_priority
                            ELSE /\ current_priority'[o] \in ps
                                 /\ \A q \in ps : current_priority'[o] <= q]_vars

\* The timer fired for the only thread that ever ran, an urgent waiter whose lock owner
\* is less urgent, has no waiter left and is back at its nominal priority.
C32_Witness ==
    /\ last = Call("ThreadWakeupCallback", "WaitMutex, owned")
    /\ ~crashed
    /\ \E t \in ThreadIds :
           /\ status[t] = "Ready"
           /\ \E o \in ThreadIds \ {t} : Created(o)
           /\ \A o \in ThreadIds \ {t} :
                  Created(o) =>
                  /\ status[o] = "Dormant"
                  /\ nominal_priority[t] < nominal_priority[o]
                  /\ wait_mutex_threads[o] = <<>>
                  /\ current_priority[o] = nominal_priority[o]

\* C33: the thread of a successful Create is Dormant, has the requested priority as its
\* nominal and current priority, the requested core as processor_id and ideal_core, that
\* core's bit alone as affinity_mask, no wait objects and no lock owner, and it is in the
\* tracking set of that core's scheduler and in no ready queue.
C33_CreatedThread ==
    [][\A priority \in CreatePriorities, core \in CreateCores, entry_valid \in BOOLEAN,
          outcome \in UndefinedOutcomes :
           (/\ last'.op = "Create" /\ last'.res = "RESULT_SUCCESS"
            /\ DoCreateWith(MaxCreateThreads, priority, core, entry_valid, outcome))
               => LET t == next_thread_id
                  IN /\ status'[t] = "Dormant"
                     /\ nominal_priority'[t] = priority
                     /\ current_priority'[t] = priority
                     /\ processor_id'[t] = core
                     /\ ideal_core'[t] = core
                     /\ core \in Cores
                     /\ affinity_mask'[t] = Bit(core)
                     /\ wait_objects'[t] = <<>>
                     /\ lock_owner'[t] = NoThread
                     /\ Count(thread_list'[core], t) = 1
                     /\ ~InReadyQueue(ready_queue', t)]_vars

\* The thread is Ready with no wakeup callback, it is in exactly one ready queue, once:
\* that of its processor_id's scheduler at its current priority, and that core has a
\* reschedule pending.
Started(k, t) ==
    /\ k.wakeup_callback[t] = "null"
    /\ k.status[t] = "Ready"
    /\ k.processor_id[t] \in Cores
    /\ k.scheduler[t] = k.processor_id[t]
    /\ \A c \in Cores, p \in Priorities :
           Count(k.ready_queue[c][p], t) =
               IF c = k.processor_id[t] /\ p = k.current_priority[t] THEN 1 ELSE 0
    /\ k.reschedule_pending[k.processor_id[t]]

\* C34: ResumeFromWait on a Dormant thread, also the one SetupMainThread makes for the
\* main thread, clears the wakeup callback, makes the thread Ready, puts it exactly once
\* into the ready queue of its resolved core's scheduler at its current priority and
\* requests a reschedule on that core.
C34_DormantResume ==
    [][/\ \A t \in ThreadIds :
              (last'.op = "ResumeFromWait" /\ status[t] = "Dormant" /\ DoResumeFromWait(t))
                  => /\ ~crashed'
                     /\ Started(K', t)
                     /\ current_priority'[t] = current_priority[t]
       /\ last'.op = "SetupMainThread" => ~crashed' /\ Started(K', 1)]_vars

\* A dormant thread was started on a core other than the one it was created on, while
\* the main thread runs.
C34_Witness ==
    /\ last = Call("ResumeFromWait", "Dormant")
    /\ ~crashed
    /\ status[1] = "Running"
    /\ \E t \in ThreadIds :
           /\ status[t] = "Ready"
           /\ processor_id[t] # 0
           /\ Contains(ready_queue[processor_id[t]][current_priority[t]], t)
           /\ reschedule_pending[processor_id[t]]

\* C35: BoostPriority(t, p) sets t's current priority to exactly p and reports p to t's
\* scheduler (a Ready t is queued at p and at no other priority), and leaves every
\* nominal priority, every wait_mutex_threads list, every lock owner and every other
\* thread's current priority, that of t's lock owner included, as they were; the boost
\* does not outlive an UpdatePriority of t: after SetPriority(t, q) t's current priority
\* is the most urgent of q and its waiters' nominal priorities, whatever the boost was.
C35_BoostOverrides ==
    [][\A t \in ThreadIds :
           /\ \A p \in {THREADPRIO_HIGHEST, THREADPRIO_LOWEST} :
                  DoBoostPriority(t, p)
                      => /\ current_priority'[t] = p
                         /\ \A u \in ThreadIds \ {t} :
                                current_priority'[u] = current_priority[u]
                         /\ UNCHANGED <<nominal_priority, wait_mutex_threads, lock_owner>>
                         /\ IF status[t] = "Ready"
                            THEN \A q \in Priorities :
                                     Count(ready_queue'[scheduler[t]][q], t) =
                                         IF q = p THEN 1 ELSE 0
                            ELSE UNCHANGED ready_queue
           /\ \A q \in {THREADPRIO_HIGHEST, THREADPRIO_DEFAULT} :
                  DoSetPriority(t, q)
                      => /\ nominal_priority'[t] = q
                         /\ current_priority'[t] = MostUrgentNominal(t)']_vars

\* A mutex waiter was boosted to a priority less urgent than its nominal one; its lock
\* owner, a Ready thread, is at the priority that its own nominal priority and its
\* waiters' nominal priorities give.
C35_Witness ==
    /\ ~crashed
    /\ \E t, o \in ThreadIds :
           /\ lock_owner[t] = o /\ Contains(wait_mutex_threads[o], t)
           /\ current_priority[t] = THREADPRIO_LOWEST
           /\ nominal_priority[t] < THREADPRIO_LOWEST
           /\ status[o] = "Ready"
           /\ current_priority[o] = MostUrgentNominal(o)

\* C36: after any sequence of Create, SetPriority, AddMutexWaiter and RemoveMutexWaiter
\* calls every thread's current priority is the most urgent of its own nominal priority
\* and the nominal priorities of its present mutex waiters; SetPriority on a mutex waiter
\* leaves its lock owner's current priority so.
C36_CurrentIsMostUrgent ==
    \A t \in ThreadIds : Created(t) => current_priority[t] = MostUrgentNominal(t)

\* C37: the propagation that one UpdatePriority call starts ends, whatever the lock_owner
\* links are, cycles included: UpdatePriority is invoked at most once more than there are
\* threads, on no thread more than twice, and the walk leaves the state that
\* UpdatePriority leaves.
C37_PropagationEnds ==
    \A start \in Propagations :
        LET walk == UpdatePriorityWalk(start[1], start[2], MaxThreads + 2)
        IN /\ ~walk.cut
           /\ Len(walk.visits) <= Cardinality({t \in ThreadIds : Created(t)}) + 1
           /\ \A t \in ThreadIds : Count(walk.visits, t) <= 2
           /\ walk.k = UpdatePriority(start[1], start[2])

\* The lock owners form a cycle through all threads, and a propagation goes once around
\* it and stops on the thread it started on.
C37_Witness ==
    /\ ~crashed
    /\ \A t \in ThreadIds : Created(t) => lock_owner[t] # NoThread
    /\ \E t \in ThreadIds :
           LET walk == UpdatePriorityWalk(K, t, MaxThreads + 2)
           IN /\ Created(t)
              /\ Len(walk.visits) = Cardinality({u \in ThreadIds : Created(u)}) + 1
              /\ walk.visits[Len(walk.visits)] = t
              /\ Len(walk.visits) >= 3

\* The step is a placement of thread t, the thread the scenario acts on: ResumeFromWait
\* of a dormant or waiting thread, or ChangeCore of a Ready one.
Places(t) ==
    /\ t = Newest
    /\ \/ /\ last'.op = "ResumeFromWait"
          /\ status[t] \in Resumable
          /\ DoResumeFromWait(t)
       \/ /\ last'.op = "ChangeCore"
          /\ status[t] = "Ready"
          /\ \E r \in CoreRequests : DoChangeCore(t, r[1], r[2])

\* C38 as stated: after every placement by ResumeFromWait or ChangeCore the bit of the
\* thread's processor_id is set in its affinity_mask, whichever rule decided the core.
C38_PlacedWithinMask ==
    [][\A t \in ThreadIds :
           (Places(t) /\ ~crashed') => BitSet(affinity_mask'[t], processor_id'[t])]_vars

\* C38 as the code has it: a placement that the free-core scan decides puts the thread
\* on a core of its affinity_mask; one that the ideal core decides puts it on ideal_core;
\* one that falls back keeps the previous processor_id, in the mask or not.
C38_ScanWithinMask ==
    [][\A t \in ThreadIds :
           (Places(t) /\ ~crashed')
               => /\ last'.res \in {"scan", "ideal", "fallback"}
                  /\ last'.res = "scan" => BitSet(affinity_mask'[t], processor_id'[t])
                  /\ last'.res = "ideal" => processor_id'[t] = ideal_core'[t]
                  /\ last'.res = "fallback" => processor_id'[t] = processor_id[t]]_vars

\* ChangeCore took a core out of the mask of a Ready thread that is assigned to it, and
\* the placement fell back to that core; another thread was placed by the scan.
C38_Witness ==
    /\ last = Call("ChangeCore", "fallback")
    /\ ~crashed
    /\ \E t \in ThreadIds :
           /\ t = Newest /\ status[t] = "Ready"
           /\ ~BitSet(affinity_mask[t], processor_id[t])
    /\ \E u \in ThreadIds :
           /\ status[u] = "Running"
           /\ ideal_core[u] = -1
           /\ BitSet(affinity_mask[u], processor_id[u])

\* C39: no two threads that are not Dead have the same TLS slot, and the slot of every
\* such thread is marked used: Create hands out the lowest free slot of the first page
\* that has one, and Stop frees the slot of the stopped thread only.
C39_DistinctTlsSlots ==
    \A t, u \in ThreadIds :
        (Created(t) /\ status[t] # "Dead" /\ Created(u) /\ status[u] # "Dead")
            => /\ t # u => tls_address[t] # tls_address[u]
               /\ (tls_address[t] % PAGE_SIZE) \div TLS_ENTRY_SIZE
                      \in tls_slots[(tls_address[t] \div PAGE_SIZE) + 1]

\* C40: after Stop(t) the thread t is in no thread's wait_mutex_threads, has no lock
\* owner and has no mutex waiters of its own.
C40_StopLeavesNoMutexLinks ==
    [][\A t \in ThreadIds :
           (status[t] # "Dead" /\ last'.op = "Stop" /\ DoStop(t))
               => /\ \A o \in ThreadIds : ~Contains(wait_mutex_threads'[o], t)
                  /\ lock_owner'[t] = NoThread
                  /\ wait_mutex_threads'[t] = <<>>]_vars

====
